---------------------------- MODULE Spec2Model ----------------------------
(***************************************************************************)
(* Model of the socket programs of FusiikCz/Informatika:                   *)
(*   src/Python/server.py        the chat server                            *)
(*   src/Python/client.py        the chat client's background receiver      *)
(*   src/P2P/Python/peer2peer.py the hybrid peer                            *)
(*                                                                         *)
(* The three programs share one framed transport (send_message /           *)
(* receive_message, the same text in all three files).  The variable        *)
(* prog says which program a behaviour is about; the variables of the      *)
(* other programs keep their initial values.                                *)
(*                                                                         *)
(*   SpecTransport  one byte stream between a writer and the client's       *)
(*                  receiver loop, byte by byte                             *)
(*   Spec           the chat server's threads, or the hybrid peer's, while  *)
(*                  no heartbeat interval elapses                           *)
(*   SpecHeartbeat  the same threads with the heartbeat monitor (the        *)
(*                  peer's cleanup thread) as the clock moves               *)
(*   SpecRate       the chat server's rate limiter on one connection        *)
(*   SpecDispatch   the dispatch of one frame from every registry           *)
(*                                                                         *)
(* Sizes that cannot be enumerated as they stand in the source are scaled  *)
(* down and keep the source's names: BUFFER_SIZE (4096 in the source),     *)
(* MAX_CLIENTS (100), MAX_PEERS (50).  Time is counted in ticks,           *)
(* TicksPerSecond to the second.  A str is a sequence of code points.      *)
(***************************************************************************)
EXTENDS Integers, Sequences, FiniteSets, TLC

VARIABLES
    prog,            \* "transport" | "server" | "rate" | "peer"
    \* ---- framed transport: one byte stream, writer end -> reader end
    stream,          \* every byte the writer end has written, in order
    delivered,       \* how many of them have reached the reader's socket buffer
    pos,             \* how many of them recv has handed to receive_message
    writerClosed,    \* the writer end has closed the stream
    sentLog,         \* payloads written by send_message, in order
    rawWritten,      \* bytes were written that did not come from send_message
    rpc,             \* reader thread: "top" | "len" | "body" | "ret" | "exit"
    length_data,     \* receive_message local
    message_length,  \* receive_message local
    message_data,    \* receive_message local
    result,          \* what the last receive_message call returned
    cause,           \* why it returned that ("none" before the first return)
    nchunks,         \* recv calls of the current / last call that returned data
    callPos,         \* pos when the current / last call started
    nrecv,           \* number of calls that returned a payload
    lost,            \* a timeout threw away bytes already read
    running,         \* client: the running Event
    sockClosed,      \* client: main closed the socket
    \* ---- server and peer: what both keep
    now,             \* the clock, in ticks
    io,              \* the send_message calls of the last step, in order
    ev,              \* what the last step did
    closed,          \* the sockets this process has closed
    rejected,        \* the connections turned away because the registry was full
    mainexit,        \* main: "no" while it serves, then how its finally block
                     \* ended: "returned" | "raised"
    listener,        \* the listening socket: "open" | "closed"
    node_running,    \* the server_running / peer_running Event is set
    loop,            \* where each looping thread is: "none" (not started) |
                     \* "check" (at its while test) | "wait" (blocked in
                     \* accept, receive_message or time.sleep) | "done"
    \* ---- server.py: the senders to the socket of one client
    wire,            \* the bytes written to the socket
    sender,          \* each sender's place in send_message, "idle" | "body",
                     \* and the calls it has completed
    lock,            \* clients_lock / peers_lock: "free" or the thread that
                     \* holds it
    cs,              \* each thread's place at the lock: "idle" | "waiting" |
                     \* "inside" | "blocked", the with block it is at and the
                     \* calls it has still to make inside
    \* ---- server.py
    clients,         \* the clients list
    hpc,             \* handle_client of each connection: "new" | "insert" |
                     \* "greet" | "loop" | "cleanup" | "finish" | "done"
    username,        \* handle_client local
    p2p_port,        \* handle_client local
    mpc,             \* heartbeat_monitor: "sleep" | "remove"
    wake,            \* when its time.sleep returns
    disconnected,    \* heartbeat_monitor local
    active,          \* connections that sent a frame since the scan in progress
    rateLog,         \* SpecRate: the latest chat messages and what became of them
    \* ---- peer2peer.py
    connected_peers, \* the connected_peers dict
    ppc,             \* each connection's thread: handle_incoming_peer "insert" |
                     \* "loop" | "cleanup", connect_to_peer "connecting",
                     \* receive_from_peer "receiver"; "new" before, "done" after
    peer_username,   \* handle_incoming_peer local
    mainpc,          \* main: "prompt" | "connecting" | "bcast"
    peers_copy,      \* broadcast_to_all_peers local
    sent_count,      \* broadcast_to_all_peers local
    disconnected_peers, \* broadcast_to_all_peers local
    cwake            \* when cleanup_thread's time.sleep returns

writerVars == <<stream, writerClosed, sentLog, rawWritten>>
readerVars == <<pos, rpc, length_data, message_length, message_data, result, cause,
                nchunks, callPos, nrecv, lost>>
clientVars == <<running, sockClosed>>
transportVars == <<writerVars, delivered, readerVars, clientVars>>
sharedVars == <<now, io, ev, closed, rejected>>
serverVars == <<clients, hpc, username, p2p_port, mpc, wake, disconnected, active,
                rateLog>>
peerVars == <<connected_peers, ppc, peer_username, mainpc, peers_copy, sent_count,
              disconnected_peers, cwake>>
mainVars == <<mainexit, listener, node_running, loop>>
sendVars == <<wire, sender, lock, cs>>
nodeVars == <<sharedVars, mainVars, sendVars, serverVars, peerVars>>

vars == <<prog, transportVars, nodeVars>>

-----------------------------------------------------------------------------
(* Bounds and scaled constants *)

BUFFER_SIZE == 2
MaxSends == 2

-----------------------------------------------------------------------------
(* Generic helpers *)

Min(a, b) == IF a < b THEN a ELSE b

Range(s) == {s[i] : i \in DOMAIN s}

RECURSIVE Repeat(_, _)
Repeat(x, n) == IF n = 0 THEN <<>> ELSE <<x>> \o Repeat(x, n - 1)

None == [some |-> FALSE, val |-> <<>>]
Some(v) == [some |-> TRUE, val |-> v]

\* Python truthiness of an Optional[str]: None and '' are both falsy
Truthy(r) == r.some /\ r.val # <<>>

-----------------------------------------------------------------------------
(* UTF-8, as str.encode('utf-8') and bytes.decode('utf-8') compute it.       *)
(* A str is a sequence of code points, a bytes value a sequence of 0..255.   *)

EncodeCodePoint(cp) ==
    IF cp < 128 THEN <<cp>>
    ELSE IF cp < 2048 THEN <<192 + (cp \div 64), 128 + (cp % 64)>>
    ELSE IF cp < 65536
         THEN <<224 + (cp \div 4096), 128 + ((cp \div 64) % 64), 128 + (cp % 64)>>
    ELSE <<240 + (cp \div 262144), 128 + ((cp \div 4096) % 64),
           128 + ((cp \div 64) % 64), 128 + (cp % 64)>>

RECURSIVE Utf8Encode(_)
Utf8Encode(s) ==
    IF s = <<>> THEN <<>> ELSE EncodeCodePoint(Head(s)) \o Utf8Encode(Tail(s))

IsCont(b) == b >= 128 /\ b < 192

\* strict decoding: overlong forms, surrogates, stray continuation bytes and
\* truncated sequences raise UnicodeDecodeError (here: None)
RECURSIVE Utf8Decode(_)
Utf8Decode(b) ==
    IF b = <<>> THEN Some(<<>>)
    ELSE LET n == Len(b)
             b1 == b[1]
             width == IF b1 < 128 THEN 1
                      ELSE IF b1 >= 194 /\ b1 < 224 THEN 2
                      ELSE IF b1 >= 224 /\ b1 < 240 THEN 3
                      ELSE IF b1 >= 240 /\ b1 < 245 THEN 4
                      ELSE 0
         IN IF width = 0 \/ n < width THEN None
            ELSE IF \E i \in 2..width : ~IsCont(b[i]) THEN None
            ELSE LET cp == CASE width = 1 -> b1
                             [] width = 2 -> (b1 - 192) * 64 + (b[2] - 128)
                             [] width = 3 -> (b1 - 224) * 4096 + (b[2] - 128) * 64
                                             + (b[3] - 128)
                             [] OTHER -> (b1 - 240) * 262144 + (b[2] - 128) * 4096
                                         + (b[3] - 128) * 64 + (b[4] - 128)
                     okcp == CASE width = 1 -> TRUE
                               [] width = 2 -> cp >= 128
                               [] width = 3 -> cp >= 2048 /\ ~(cp >= 55296 /\ cp < 57344)
                               [] OTHER -> cp >= 65536 /\ cp < 1114112
                     rest == Utf8Decode(SubSeq(b, width + 1, n))
                 IN IF okcp /\ rest.some THEN Some(<<cp>> \o rest.val) ELSE None

-----------------------------------------------------------------------------
(* struct.pack('>I', n) and struct.unpack('>I', b)[0] *)

\* the prefix in the other byte order
PackLenLittleEndian(n) ==
    <<n % 256, (n \div 256) % 256, (n \div 65536) % 256, (n \div 16777216) % 256>>

PackLen(n) ==
    <<(n \div 16777216) % 256, (n \div 65536) % 256, (n \div 256) % 256, n % 256>>

UnpackLen(b) == b[1] * 16777216 + b[2] * 65536 + b[3] * 256 + b[4]

\* message_length > limit for the unsigned value of a prefix.  A prefix whose
\* first byte is 128 or more stands for 2^31 or more, which is over every limit
\* and is not computed (it is outside the checker's integers).
LengthExceeds(b, limit) == b[1] >= 128 \/ UnpackLen(b) > limit

\* the largest payload receive_message accepts, in bytes
MaxMessageLength == BUFFER_SIZE * 10

-----------------------------------------------------------------------------
(* send_message: the bytes one call writes to the socket *)

FrameBytes(message) ==
    LET message_bytes == Utf8Encode(message)
        length_prefix == PackLen(Len(message_bytes))
    IN length_prefix \o message_bytes

-----------------------------------------------------------------------------
(* The byte stream between the two ends *)

\* bytes in the reader's socket buffer
Avail == delivered - pos

\* recv(n): what a recv call that does not block returns
RecvChunk(n) == SubSeq(stream, pos + 1, pos + Min(n, Avail))

\* recv returns b'' : the writer closed and every byte has been read
AtEOF == writerClosed /\ delivered = Len(stream) /\ Avail = 0

\* strs the writer end sends first: short ones over a 1-, a 2- and a 3-byte
\* code point (65 'A', 233, 8364), and ones whose encoding is just at and just
\* over the receiver's limit
ShortPayloads == {<<>>, <<65>>, <<233>>, <<8364, 65>>}

AtLimit == Repeat(65, MaxMessageLength)

OverLimit == Repeat(65, MaxMessageLength + 1)

LongPayloads == {AtLimit, OverLimit}

Payloads == ShortPayloads \cup LongPayloads

\* the strs it sends after the first one; one of them follows the one at the
\* limit, none the one over it
LaterPayloads == {<<>>, <<8364, 65>>}

\* bytes a misbehaving writer puts on the stream without send_message
RawWrites ==
    { <<255, 255, 255, 255>>,    \* a prefix claiming 2^32 - 1 bytes
      <<0, 0, 1, 0, 65>>,        \* a prefix claiming 256 bytes, and one byte
      <<0, 0, 0, 1, 128>>,       \* one body byte that is not UTF-8
      <<0, 0>> }                 \* half a prefix

TransportInit ==
    /\ stream = <<>>
    /\ delivered = 0
    /\ pos = 0
    /\ writerClosed = FALSE
    /\ sentLog = <<>>
    /\ rawWritten = FALSE
    /\ rpc = "top"
    /\ length_data = <<>>
    /\ message_length = 0
    /\ message_data = <<>>
    /\ result = None
    /\ cause = "none"
    /\ nchunks = 0
    /\ callPos = 0
    /\ nrecv = 0
    /\ lost = FALSE
    /\ running = TRUE
    /\ sockClosed = FALSE

\* the writer end calls send_message(payload)
SendMessage(payload) ==
    /\ prog = "transport"
    /\ ~writerClosed /\ ~sockClosed
    /\ Len(sentLog) < MaxSends
    /\ sentLog # <<>> => payload \in LaterPayloads /\ sentLog[1] # OverLimit
    /\ Len(sentLog) > 1 => sentLog[1] # AtLimit
    /\ ~rawWritten
    /\ stream' = stream \o FrameBytes(payload)
    /\ sentLog' = Append(sentLog, payload)
    /\ UNCHANGED <<nodeVars, prog, writerClosed, rawWritten, delivered, readerVars, clientVars>>

\* the writer end writes bytes of its own making, at the start of the stream
\* or after one short str
SendRaw(bytes) ==
    /\ prog = "transport"
    /\ ~writerClosed /\ ~sockClosed
    /\ ~rawWritten
    /\ Len(sentLog) <= 1
    /\ sentLog # <<>> => sentLog[1] \notin LongPayloads
    /\ stream' = stream \o bytes
    /\ rawWritten' = TRUE
    /\ UNCHANGED <<nodeVars, prog, writerClosed, sentLog, delivered, readerVars, clientVars>>

CloseWriter ==
    /\ prog = "transport"
    /\ ~writerClosed /\ ~sockClosed
    /\ writerClosed' = TRUE
    /\ UNCHANGED <<nodeVars, prog, stream, sentLog, rawWritten, delivered, readerVars, clientVars>>

\* the network hands the next k bytes to the reader's socket buffer
Deliver(k) ==
    /\ prog = "transport"
    /\ ~sockClosed
    /\ k >= 1
    /\ delivered + k <= Len(stream)
    /\ delivered' = delivered + k
    /\ UNCHANGED <<nodeVars, prog, writerVars, readerVars, clientVars>>

-----------------------------------------------------------------------------
(* receive_message, one recv call per step, called from the client's         *)
(* receive_messages_thread loop                                              *)

\* length_data += chunk, message_data += chunk
LastChunkOnly(data, chunk) == chunk

Accumulate(data, chunk) == data \o chunk

\* receive_message returns r
Return(r, why) ==
    /\ rpc' = "ret"
    /\ result' = r
    /\ cause' = why
    /\ nrecv' = IF r.some THEN nrecv + 1 ELSE nrecv
    /\ length_data' = <<>>
    /\ message_length' = 0
    /\ message_data' = <<>>

\* while running.is_set(): ... message = receive_message(sock, timeout=2.0)
CallReceive ==
    /\ prog = "transport"
    /\ rpc = "top"
    /\ running /\ ~sockClosed
    /\ rpc' = "len"
    /\ length_data' = <<>>
    /\ message_data' = <<>>
    /\ message_length' = 0
    /\ callPos' = pos
    /\ nchunks' = 0
    /\ UNCHANGED <<nodeVars, prog, writerVars, delivered, pos, result, cause, nrecv, lost, clientVars>>

\* the loop's condition fails, or sock.fileno() == -1
LoopExit ==
    /\ prog = "transport"
    /\ rpc = "top"
    /\ ~running \/ sockClosed
    /\ rpc' = "exit"
    /\ UNCHANGED <<nodeVars, prog, writerVars, delivered, pos, length_data, message_length,
                   message_data, result, cause, nchunks, callPos, nrecv, lost,
                   clientVars>>

\* chunk = sock.recv(4 - len(length_data)) with data in the buffer; after the
\* fourth byte the length is unpacked and validated
RecvLength ==
    /\ prog = "transport"
    /\ rpc = "len"
    /\ ~sockClosed
    /\ Avail > 0
    /\ LET chunk == RecvChunk(4 - Len(length_data))
           ld == Accumulate(length_data, chunk)
       IN /\ pos' = pos + Len(chunk)
          /\ nchunks' = nchunks + 1
          /\ IF Len(ld) < 4
             THEN /\ length_data' = ld
                  /\ UNCHANGED <<rpc, message_length, message_data, result, cause, nrecv>>
             ELSE IF LengthExceeds(ld, MaxMessageLength)
                  THEN Return(None, "oversize")
                  ELSE IF UnpackLen(ld) = 0
                       THEN Return(Utf8Decode(<<>>), "frame")
                       ELSE /\ rpc' = "body"
                            /\ length_data' = ld
                            /\ message_length' = UnpackLen(ld)
                            /\ UNCHANGED <<message_data, result, cause, nrecv>>
    /\ UNCHANGED <<nodeVars, prog, writerVars, delivered, callPos, lost, clientVars>>

\* chunk = sock.recv(min(message_length - len(message_data), BUFFER_SIZE));
\* after the last byte the body is decoded
RecvBody ==
    /\ prog = "transport"
    /\ rpc = "body"
    /\ ~sockClosed
    /\ Avail > 0
    /\ LET chunk == RecvChunk(Min(message_length - Len(message_data), BUFFER_SIZE))
           md == Accumulate(message_data, chunk)
       IN /\ pos' = pos + Len(chunk)
          /\ nchunks' = nchunks + 1
          /\ IF Len(md) < message_length
             THEN /\ message_data' = md
                  /\ UNCHANGED <<rpc, length_data, message_length, result, cause, nrecv>>
             ELSE LET decoded == Utf8Decode(md)
                  IN Return(decoded, IF decoded.some THEN "frame" ELSE "decode")
    /\ UNCHANGED <<nodeVars, prog, writerVars, delivered, callPos, lost, clientVars>>

\* recv returns b'': if not chunk: return None
RecvEOF ==
    /\ prog = "transport"
    /\ rpc \in {"len", "body"}
    /\ ~sockClosed
    /\ AtEOF
    /\ Return(None, "eof")
    /\ UNCHANGED <<nodeVars, prog, writerVars, delivered, pos, nchunks, callPos, lost, clientVars>>

\* recv raises socket.timeout before the call has read anything:
\* except socket.timeout: return None
RecvTimeout ==
    /\ prog = "transport"
    /\ rpc = "len"
    /\ pos = callPos
    /\ ~sockClosed
    /\ Avail = 0 /\ ~AtEOF
    /\ Return(None, "timeout")
    /\ UNCHANGED <<nodeVars, prog, writerVars, delivered, pos, nchunks, callPos, lost, clientVars>>

\* recv raises socket.timeout after the call has read part of a frame: the
\* same except clause; what was read lives in the call's locals and goes with
\* them
RecvTimeoutMidFrame ==
    /\ prog = "transport"
    /\ rpc \in {"len", "body"}
    /\ pos # callPos
    /\ ~sockClosed
    /\ Avail = 0 /\ ~AtEOF
    /\ Return(None, "timeout")
    /\ lost' = TRUE
    /\ UNCHANGED <<nodeVars, prog, writerVars, delivered, pos, nchunks, callPos, clientVars>>

\* recv on a socket that main has closed raises OSError: except Exception: return None
RecvError ==
    /\ prog = "transport"
    /\ rpc \in {"len", "body"}
    /\ sockClosed
    /\ Return(None, "error")
    /\ UNCHANGED <<nodeVars, prog, writerVars, delivered, pos, nchunks, callPos, lost, clientVars>>

\* if message: ... (handled and shown); a None or '' falls through; either
\* way the loop goes round again
HandleResult ==
    /\ prog = "transport"
    /\ rpc = "ret"
    /\ rpc' = "top"
    /\ result' = None
    /\ nchunks' = 0
    /\ UNCHANGED <<nodeVars, prog, writerVars, delivered, pos, length_data, message_length,
                   message_data, cause, callPos, nrecv, lost, clientVars>>

\* client main's finally: running.clear(), client.close()
ClientClose ==
    /\ prog = "transport"
    /\ running
    /\ running' = FALSE
    /\ sockClosed' = TRUE
    /\ UNCHANGED <<nodeVars, prog, writerVars, delivered, readerVars>>

TransportNext ==
    \/ \E payload \in Payloads : SendMessage(payload)
    \/ \E bytes \in RawWrites : SendRaw(bytes)
    \/ CloseWriter
    \/ \E k \in 1..(4 + MaxMessageLength + 1) : Deliver(k)
    \/ CallReceive
    \/ LoopExit
    \/ RecvLength
    \/ RecvBody
    \/ RecvEOF
    \/ RecvTimeout
    \/ RecvError
    \/ HandleResult
    \/ ClientClose

-----------------------------------------------------------------------------
(* Python str operations, on sequences of code points *)

MinOf(S) == CHOOSE x \in S : \A y \in S : x <= y

\* str.isspace() of one character (the ASCII and Latin-1 white space)
IsSpace(cp) == cp \in {9, 10, 11, 12, 13, 28, 29, 30, 31, 32, 133, 160}

RECURSIVE LStrip(_)
LStrip(s) == IF s # <<>> /\ IsSpace(Head(s)) THEN LStrip(Tail(s)) ELSE s

RECURSIVE RStrip(_)
RStrip(s) ==
    IF s # <<>> /\ IsSpace(s[Len(s)]) THEN RStrip(SubSeq(s, 1, Len(s) - 1)) ELSE s

\* s.strip()
Strip(s) == RStrip(LStrip(s))

\* s.startswith(prefix)
StartsWith(s, prefix) ==
    Len(s) >= Len(prefix) /\ SubSeq(s, 1, Len(prefix)) = prefix

\* s[:n]
Slice(s, n) == SubSeq(s, 1, Min(n, Len(s)))

\* s.split(): the maximal runs of characters that are not white space
RECURSIVE Split(_)
Split(s) ==
    LET t == LStrip(s)
        spaces == {i \in DOMAIN t : IsSpace(t[i])}
        n == IF spaces = {} THEN Len(t) ELSE MinOf(spaces) - 1
    IN IF t = <<>> THEN <<>>
       ELSE <<SubSeq(t, 1, n)>> \o Split(SubSeq(t, n + 1, Len(t)))

\* s.split(sep, maxsplit) for a one-character sep; maxsplit = -1 is no limit
RECURSIVE SplitOn(_, _, _)
SplitOn(s, sep, maxsplit) ==
    LET at == {i \in DOMAIN s : s[i] = sep}
    IN IF maxsplit = 0 \/ at = {} THEN <<s>>
       ELSE <<SubSeq(s, 1, MinOf(at) - 1)>>
            \o SplitOn(SubSeq(s, MinOf(at) + 1, Len(s)), sep, maxsplit - 1)

\* sep.join(parts)
RECURSIVE Join(_, _)
Join(sep, parts) ==
    IF parts = <<>> THEN <<>>
    ELSE IF Len(parts) = 1 THEN parts[1]
    ELSE parts[1] \o sep \o Join(sep, Tail(parts))

\* s.replace(old, new), old not empty
RECURSIVE Replace(_, _, _)
Replace(s, old, new) ==
    IF s = <<>> THEN <<>>
    ELSE IF StartsWith(s, old)
         THEN new \o Replace(SubSeq(s, Len(old) + 1, Len(s)), old, new)
         ELSE <<Head(s)>> \o Replace(Tail(s), old, new)

\* str.lower() of one character: ASCII, Latin-1 and the paired letters of
\* Latin Extended-A (which hold the Czech alphabet); other characters are
\* left as they are
LowerCodePoint(cp) ==
    IF cp >= 65 /\ cp <= 90 THEN cp + 32
    ELSE IF cp >= 192 /\ cp <= 222 /\ cp # 215 THEN cp + 32
    ELSE IF cp >= 256 /\ cp <= 311 /\ cp % 2 = 0 /\ cp # 304 THEN cp + 1
    ELSE IF cp >= 313 /\ cp <= 328 /\ cp % 2 = 1 THEN cp + 1
    ELSE IF cp >= 330 /\ cp <= 375 /\ cp % 2 = 0 THEN cp + 1
    ELSE IF cp >= 377 /\ cp <= 382 /\ cp % 2 = 1 THEN cp + 1
    ELSE cp

\* s.lower()
Lower(s) == [i \in DOMAIN s |-> LowerCodePoint(s[i])]

RECURSIVE Digits(_)
Digits(n) == IF n < 10 THEN <<48 + n>> ELSE Digits(n \div 10) \o <<48 + (n % 10)>>

\* str(n), as an f-string formats an int
IntToStr(n) == IF n < 0 THEN <<45>> \o Digits(0 - n) ELSE Digits(n)

RECURSIVE DigitsValue(_)
DigitsValue(d) ==
    IF d = <<>> THEN 0
    ELSE DigitsValue(SubSeq(d, 1, Len(d) - 1)) * 10 + (d[Len(d)] - 48)

\* int(s): white space around, an optional sign, decimal digits; ok is FALSE
\* where int raises ValueError
ParseInt(s) ==
    LET t == Strip(s)
        signed == t # <<>> /\ t[1] \in {43, 45}
        d == IF signed THEN Tail(t) ELSE t
    IN IF d # <<>> /\ \A i \in DOMAIN d : d[i] >= 48 /\ d[i] <= 57
       THEN [ok |-> TRUE,
             val |-> IF signed /\ t[1] = 45 THEN 0 - DigitsValue(d) ELSE DigitsValue(d)]
       ELSE [ok |-> FALSE, val |-> 0]

\* a number in two digits, as %H and %M print it
Pad2(n) == IF n < 10 THEN <<48>> \o Digits(n) ELSE Digits(n)

-----------------------------------------------------------------------------
(* The string literals of server.py and peer2peer.py, and the frames the
   model's clients and remote peers send *)

ServerText ==
    \* "USERNAME:"
    [ USERNAME |-> <<85, 83, 69, 82, 78, 65, 77, 69, 58>>,
    \* "SETUP:"
      SETUP |-> <<83, 69, 84, 85, 80, 58>>,
    \* "User_"
      User |-> <<85, 115, 101, 114, 95>>,
    \* "ERROR: Server je plný"
      ServerFull |-> <<69, 82, 82, 79, 82, 58, 32, 83, 101, 114, 118, 101,
          114, 32, 106, 101, 32, 112, 108, 110, 253>>,
    \* "Vítejte v chatu, "
      Welcome1 |-> <<86, 237, 116, 101, 106, 116, 101, 32, 118, 32, 99, 104,
          97, 116, 117, 44, 32>>,
    \* "! ["
      Welcome2 |-> <<33, 32, 91>>,
    \* " uživatel"
      Welcome3 |-> <<32, 117, 382, 105, 118, 97, 116, 101, 108>>,
    \* "é"
      Welcome3Plural |-> <<233>>,
    \* " online] Napište zprávu a stiskněte Enter. Použijte /help pro nápovědu."
      Welcome4 |-> <<32, 111, 110, 108, 105, 110, 101, 93, 32, 78, 97, 112,
          105, 353, 116, 101, 32, 122, 112, 114, 225, 118, 117, 32, 97, 32,
          115, 116, 105, 115, 107, 110, 283, 116, 101, 32, 69, 110, 116, 101,
          114, 46, 32, 80, 111, 117, 382, 105, 106, 116, 101, 32, 47, 104,
          101, 108, 112, 32, 112, 114, 111, 32, 110, 225, 112, 111, 118, 283,
          100, 117, 46>>,
    \* "Server: "
      Server |-> <<83, 101, 114, 118, 101, 114, 58, 32>>,
    \* " se připojil k chatu"
      Joined |-> <<32, 115, 101, 32, 112, 345, 105, 112, 111, 106, 105, 108,
          32, 107, 32, 99, 104, 97, 116, 117>>,
    \* " opustil chat"
      Left |-> <<32, 111, 112, 117, 115, 116, 105, 108, 32, 99, 104, 97,
          116>>,
    \* "PING"
      PING |-> <<80, 73, 78, 71>>,
    \* "PONG"
      PONG |-> <<80, 79, 78, 71>>,
    \* "ERROR: Příliš mnoho zpráv! Maximálně "
      RateLimit1 |-> <<69, 82, 82, 79, 82, 58, 32, 80, 345, 237, 108, 105,
          353, 32, 109, 110, 111, 104, 111, 32, 122, 112, 114, 225, 118, 33,
          32, 77, 97, 120, 105, 109, 225, 108, 110, 283, 32>>,
    \* " zpráv za "
      RateLimit2 |-> <<32, 122, 112, 114, 225, 118, 32, 122, 97, 32>>,
    \* "1.0"
      RateLimitWindow |-> <<49, 46, 48>>,
    \* " sekund."
      RateLimit3 |-> <<32, 115, 101, 107, 117, 110, 100, 46>>,
    \* "/quit"
      quit |-> <<47, 113, 117, 105, 116>>,
    \* "Odpojování..."
      Bye |-> <<79, 100, 112, 111, 106, 111, 118, 225, 110, 237, 46, 46, 46>>,
    \* "/list"
      list |-> <<47, 108, 105, 115, 116>>,
    \* "Připojení uživatelé: "
      UserList |-> <<80, 345, 105, 112, 111, 106, 101, 110, 237, 32, 117, 382,
          105, 118, 97, 116, 101, 108, 233, 58, 32>>,
    \* ", "
      CommaSpace |-> <<44, 32>>,
    \* "/getpeer"
      getpeer |-> <<47, 103, 101, 116, 112, 101, 101, 114>>,
    \* "PEER_INFO:"
      PEER_INFO |-> <<80, 69, 69, 82, 95, 73, 78, 70, 79, 58>>,
    \* "ERROR: Uživatel '"
      NotFound1 |-> <<69, 82, 82, 79, 82, 58, 32, 85, 382, 105, 118, 97, 116,
          101, 108, 32, 39>>,
    \* "' není připojen"
      NotFound2 |-> <<39, 32, 110, 101, 110, 237, 32, 112, 345, 105, 112, 111,
          106, 101, 110>>,
    \* "/pm"
      pm |-> <<47, 112, 109>>,
    \* "[PM od "
      PmFrom |-> <<91, 80, 77, 32, 111, 100, 32>>,
    \* "INFO: Soukromá zpráva odeslána "
      PmSent |-> <<73, 78, 70, 79, 58, 32, 83, 111, 117, 107, 114, 111, 109,
          225, 32, 122, 112, 114, 225, 118, 97, 32, 111, 100, 101, 115, 108,
          225, 110, 97, 32>>,
    \* "/peers"
      peers |-> <<47, 112, 101, 101, 114, 115>>,
    \* "P2P informace:\n"
      PeerList |-> <<80, 50, 80, 32, 105, 110, 102, 111, 114, 109, 97, 99,
          101, 58, 10>>,
    \* "/broadcast"
      broadcast |-> <<47, 98, 114, 111, 97, 100, 99, 97, 115, 116>>,
    \* "INFO: Všechny zprávy se automaticky posílají všem uživatelům. Stačí napsat zprávu."
      BroadcastInfo |-> <<73, 78, 70, 79, 58, 32, 86, 353, 101, 99, 104, 110,
          121, 32, 122, 112, 114, 225, 118, 121, 32, 115, 101, 32, 97, 117,
          116, 111, 109, 97, 116, 105, 99, 107, 121, 32, 112, 111, 115, 237,
          108, 97, 106, 237, 32, 118, 353, 101, 109, 32, 117, 382, 105, 118,
          97, 116, 101, 108, 367, 109, 46, 32, 83, 116, 97, 269, 237, 32, 110,
          97, 112, 115, 97, 116, 32, 122, 112, 114, 225, 118, 117, 46>>,
    \* "/help"
      help |-> <<47, 104, 101, 108, 112>>,
    \* "=== Chat Server - Nápověda ==="
      HelpText |-> <<61, 61, 61, 32, 67, 104, 97, 116, 32, 83, 101, 114, 118,
          101, 114, 32, 45, 32, 78, 225, 112, 111, 118, 283, 100, 97, 32, 61,
          61, 61>>,
    \* "ERROR: Neznámý příkaz. Použijte /help"
      Unknown |-> <<69, 82, 82, 79, 82, 58, 32, 78, 101, 122, 110, 225, 109,
          253, 32, 112, 345, 237, 107, 97, 122, 46, 32, 80, 111, 117, 382,
          105, 106, 116, 101, 32, 47, 104, 101, 108, 112>>,
    \* "[COLOR:"
      COLOR |-> <<91, 67, 79, 76, 79, 82, 58>>,
    \* "37"
      DefaultColor |-> <<51, 55>> ]

PeerText ==
    \* "USERNAME:"
    [ USERNAME |-> <<85, 83, 69, 82, 78, 65, 77, 69, 58>>,
    \* "Peer"
      username |-> <<80, 101, 101, 114>>,
    \* "Peer_"
      Peer |-> <<80, 101, 101, 114, 95>>,
    \* "ERROR: Maximální počet peerů dosažen"
      Full |-> <<69, 82, 82, 79, 82, 58, 32, 77, 97, 120, 105, 109, 225, 108,
          110, 237, 32, 112, 111, 269, 101, 116, 32, 112, 101, 101, 114, 367,
          32, 100, 111, 115, 97, 382, 101, 110>>,
    \* "Vítejte v P2P síti, "
      Welcome1 |-> <<86, 237, 116, 101, 106, 116, 101, 32, 118, 32, 80, 50,
          80, 32, 115, 237, 116, 105, 44, 32>>,
    \* "! Jste připojeni k "
      Welcome2 |-> <<33, 32, 74, 115, 116, 101, 32, 112, 345, 105, 112, 111,
          106, 101, 110, 105, 32, 107, 32>>,
    \* "."
      Welcome3 |-> <<46>>,
    \* "/quit"
      quit |-> <<47, 113, 117, 105, 116>>,
    \* "Odpojování..."
      Bye |-> <<79, 100, 112, 111, 106, 111, 118, 225, 110, 237, 46, 46, 46>>,
    \* "/ping"
      ping |-> <<47, 112, 105, 110, 103>>,
    \* "PONG"
      PONG |-> <<80, 79, 78, 71>>,
    \* "/list"
      list |-> <<47, 108, 105, 115, 116>>,
    \* "Připojení peery: "
      PeerList |-> <<80, 345, 105, 112, 111, 106, 101, 110, 237, 32, 112, 101,
          101, 114, 121, 58, 32>>,
    \* ", "
      CommaSpace |-> <<44, 32>>,
    \* "Echo: "
      Echo |-> <<69, 99, 104, 111, 58, 32>> ]

Input ==
    \* "USERNAME:bob"
    [ hs_bob |-> <<85, 83, 69, 82, 78, 65, 77, 69, 58, 98, 111, 98>>,
    \* "SETUP:Bob:9001"
      hs_Bob |-> <<83, 69, 84, 85, 80, 58, 66, 111, 98, 58, 57, 48, 48, 49>>,
    \* "USERNAME:"
      hs_empty |->
          <<85, 83, 69, 82, 78, 65, 77, 69, 58>>,
    \* "SETUP::9001"
      hs_setup_empty |->
          <<83, 69, 84, 85, 80, 58, 58, 57, 48, 48, 49>>,
    \* "SETUP:Bob:x1"
      hs_badport |->
          <<83, 69, 84, 85, 80, 58, 66, 111, 98, 58, 120, 49>>,
    \* "SETUP:Bob"
      hs_noport |->
          <<83, 69, 84, 85, 80, 58, 66, 111, 98>>,
    \* "hello"
      hs_other |->
          <<104, 101, 108, 108, 111>>,
    \* "USERNAME:abcdefghijklmnopqrstuv"
      hs_long |->
          <<85, 83, 69, 82, 78, 65, 77, 69, 58, 97, 98, 99, 100, 101, 102, 103, 104, 105, 106, 107, 108, 109, 110, 111, 112, 113, 114, 115, 116, 117, 118>>,
    \* "hi"
      chat |-> <<104, 105>>,
    \* " "
      blank |-> <<32>>,
    \* "PONG"
      pong |-> <<80, 79, 78, 71>>,
    \* "/list"
      list |-> <<47, 108, 105, 115, 116>>,
    \* "/getpeer BOB"
      getpeer_hit |-> <<47, 103, 101, 116, 112, 101, 101, 114, 32, 66, 79,
          66>>,
    \* "/getpeer zed"
      getpeer_miss |-> <<47, 103, 101, 116, 112, 101, 101, 114, 32, 122, 101,
          100>>,
    \* "/getpeer"
      getpeer_bare |-> <<47, 103, 101, 116, 112, 101, 101, 114>>,
    \* "/pm Bob hi"
      pm |-> <<47, 112, 109, 32, 66, 111, 98, 32, 104, 105>>,
    \* "/pm zed hi"
      pm_miss |-> <<47, 112, 109, 32, 122, 101, 100, 32, 104, 105>>,
    \* "/pm  Bob hi", with two spaces after the command
      pm_spaces |-> <<47, 112, 109, 32, 32, 66, 111, 98, 32, 104, 105>>,
    \* "/pm\tBob\thi", with tabs for the spaces
      pm_tabs |-> <<47, 112, 109, 9, 66, 111, 98, 9, 104, 105>>,
    \* "/quit"
      quit |-> <<47, 113, 117, 105, 116>>,
    \* "/peers"
      peers |-> <<47, 112, 101, 101, 114, 115>>,
    \* "/help"
      help |-> <<47, 104, 101, 108, 112>>,
    \* "/ping"
      ping |-> <<47, 112, 105, 110, 103>>,
    \* "/broadcast x"
      broadcast |-> <<47, 98, 114, 111, 97, 100, 99, 97, 115, 116, 32, 120>> ]

-----------------------------------------------------------------------------
(* server.py: constants *)

\* MAX_CLIENTS = 100 in the source
MAX_CLIENTS == 2

RATE_LIMIT_MESSAGES == 10

\* the source's times are seconds; the model counts ticks
TicksPerSecond == 2

HEARTBEAT_INTERVAL == 300 * TicksPerSecond

HEARTBEAT_TIMEOUT == 100 * TicksPerSecond

RATE_LIMIT_WINDOW == 1 * TicksPerSecond

\* '\033[' + code + 'm'
Ansi(code) == <<27, 91>> \o code \o <<109>>

\* codes 31..36 and 91..96
USER_COLORS ==
    << Ansi(<<51, 49>>), Ansi(<<51, 50>>), Ansi(<<51, 51>>), Ansi(<<51, 52>>),
       Ansi(<<51, 53>>), Ansi(<<51, 54>>), Ansi(<<57, 49>>), Ansi(<<57, 50>>),
       Ansi(<<57, 51>>), Ansi(<<57, 52>>), Ansi(<<57, 53>>), Ansi(<<57, 54>>) >>

-----------------------------------------------------------------------------
(* server.py: the environment of the model *)

\* the connections the listening socket accepts, numbered in accept order; a
\* connection's number stands for its socket object
Conns == {1, 2, 3}

\* the remote address accept() reports for a connection: ("10.0.0.c", 50000 + c)
Address(c) == << <<49, 48, 46, 48, 46, 48, 46, 48 + c>>, 50000 + c >>

\* the connections on which a send may fail while the socket is open
Flaky == {2}

\* how many scans of the heartbeat monitor a behaviour covers
MaxScans == 1

\* how long a burst of chat messages in one rate window the server
\* specification follows (the rate-limiter specification follows them all)
MaxBurst == 1

\* how many ticks the rate-limiter specification covers
MaxRateTicks == 3

MaxTime == MaxScans * HEARTBEAT_INTERVAL

\* datetime.now().strftime("%H:%M"), the clock reading 00:00 at tick 0
HHMM(t) ==
    LET seconds == t \div TicksPerSecond
    IN Pad2((seconds \div 3600) % 24) \o <<58>> \o Pad2((seconds \div 60) % 60)

\* what a client may send first: nothing in time, or a handshake frame
Handshakes(c) ==
    CASE c = 1 -> {Some(Input.hs_bob)}
      [] c = 2 -> {Some(Input.hs_Bob)}
      [] OTHER -> {None}

\* frames a client sends after the handshake, in the specification of the
\* threads
Messages == {Input.pong, Input.chat, Input.list, Input.quit}

\* frames a client sends in the specification of the dispatch
DispatchMessages ==
    { Input.pong, Input.blank, Input.chat, Input.list, Input.getpeer_hit,
      Input.getpeer_miss, Input.getpeer_bare, Input.pm, Input.pm_miss,
      Input.pm_spaces, Input.pm_tabs, Input.quit, Input.ping, Input.peers,
      Input.help, Input.broadcast }

\* the connections and the frames of the heartbeat specification
HeartbeatConns == {1, 2}

HeartbeatMessages == {Input.pong, Input.chat, Input.quit}

\* one send_message call: the socket, the str, whether sendall went through,
\* which code made the call and whether clients_lock was held
SendEvent(sock, message, bad, kind, locked) ==
    [to |-> sock, frame |-> message, ok |-> sock \notin bad, kind |-> kind,
     locked |-> locked]

\* what the last step did: the operation, the connection whose handler did it,
\* the frame it handled, and for a broadcast the excluded socket (0 for None)
\* and the value broadcast_message returned
Ev(op, c, msg) ==
    [op |-> op, c |-> c, msg |-> msg, bcast |-> FALSE, exclude |-> 0, ret |-> 0]

EvBroadcast(op, c, msg, exclude_socket, count) ==
    [op |-> op, c |-> c, msg |-> msg, bcast |-> TRUE, exclude |-> exclude_socket,
     ret |-> count]

\* the sockets of the list
Sockets(cl) == {cl[i].sock : i \in DOMAIN cl}

\* index of the first record of a socket in cl, 0 if there is none
IndexOf(cl, client_socket) ==
    LET at == {i \in DOMAIN cl : cl[i].sock = client_socket}
    IN IF at = {} THEN 0 ELSE MinOf(at)

\* list.remove(rec) guarded by `rec in list`: the first equal element goes
RemoveFirst(cl, rec) ==
    LET at == {i \in DOMAIN cl : cl[i] = rec}
    IN IF at = {} THEN cl
       ELSE SubSeq(cl, 1, MinOf(at) - 1) \o SubSeq(cl, MinOf(at) + 1, Len(cl))

\* the loop's effect left undone
KeepAll(cl, recs) == cl

\* for client_info in recs: if client_info in clients: clients.remove(client_info)
RECURSIVE RemoveAll(_, _)
RemoveAll(cl, recs) ==
    IF recs = <<>> THEN cl ELSE RemoveAll(RemoveFirst(cl, Head(recs)), Tail(recs))

-----------------------------------------------------------------------------
(* server.py: functions over the clients list.  A record of the list is the   *)
(* source's tuple (sock, addr, uname, p2p_port, last_hb, last_msg_time,       *)
(* msg_count, color).                                                         *)

get_user_color(client_index) == USER_COLORS[(client_index % Len(USER_COLORS)) + 1]

\* a window that never ends
WindowNeverElapsed(current_time, last_msg_time) == FALSE

\* a window that is over only after more than its length
WindowOverrun(current_time, last_msg_time) ==
    current_time - last_msg_time > RATE_LIMIT_WINDOW

\* current_time - last_msg_time >= RATE_LIMIT_WINDOW
WindowElapsed(current_time, last_msg_time) ==
    current_time - last_msg_time >= RATE_LIMIT_WINDOW

UnderOrAtLimit(msg_count) == msg_count <= RATE_LIMIT_MESSAGES

\* msg_count < RATE_LIMIT_MESSAGES
UnderLimit(msg_count) == msg_count < RATE_LIMIT_MESSAGES

\* check_rate_limit: the value returned, the list afterwards, and the branch
\* taken ("none" when the socket has no record)
check_rate_limit(cl, client_socket, current_time) ==
    LET i == IndexOf(cl, client_socket)
    IN IF i = 0 THEN [allowed |-> TRUE, clients |-> cl, branch |-> "none"]
       ELSE IF WindowElapsed(current_time, cl[i].last_msg_time)
            THEN [allowed |-> TRUE,
                  clients |-> [cl EXCEPT ![i].last_msg_time = current_time,
                                         ![i].msg_count = 1],
                  branch |-> "reset"]
       ELSE IF UnderLimit(cl[i].msg_count)
            THEN [allowed |-> TRUE,
                  clients |-> [cl EXCEPT ![i].msg_count = cl[i].msg_count + 1],
                  branch |-> "count"]
       ELSE [allowed |-> FALSE, clients |-> cl, branch |-> "reject"]

update_heartbeat(cl, client_socket, current_time) ==
    LET i == IndexOf(cl, client_socket)
    IN IF i = 0 THEN cl ELSE [cl EXCEPT ![i].last_hb = current_time]

\* the send_message calls of one pass of broadcast_message over cl
RECURSIVE BroadcastSends(_, _, _, _)
BroadcastSends(cl, message, exclude_socket, bad) ==
    IF cl = <<>> THEN <<>>
    ELSE IF Head(cl).sock = exclude_socket
         THEN BroadcastSends(Tail(cl), message, exclude_socket, bad)
         ELSE <<SendEvent(Head(cl).sock, message, bad, "broadcast", TRUE)>>
              \o BroadcastSends(Tail(cl), message, exclude_socket, bad)

\* broadcast_message, all of it under clients_lock: bad is the set of sockets
\* on which sendall fails
broadcast_message(cl, message, exclude_socket, bad) ==
    LET sends == BroadcastSends(cl, message, exclude_socket, bad)
        Failed(r) == r.sock # exclude_socket /\ r.sock \in bad
        Succeeded(e) == e.ok
        disconnected_clients == SelectSeq(cl, Failed)
    IN [clients |-> RemoveAll(cl, disconnected_clients),
        sent_count |-> Len(SelectSeq(sends, Succeeded)),
        sends |-> sends]

\* current_time - last_heartbeat > HEARTBEAT_TIMEOUT * 2
HeartbeatExpired(current_time, last_heartbeat) ==
    current_time - last_heartbeat > HEARTBEAT_TIMEOUT * 2

\* a removal pass that closes the socket of every marked tuple
ClosedAllMarked(cl, marked) == {marked[i].sock : i \in DOMAIN marked}

\* the sockets the monitor's removal pass closes: those of the marked tuples
\* that are still in the list as they were marked
ClosedByMonitor(cl, marked) ==
    {marked[i].sock : i \in {j \in DOMAIN marked : marked[j] \in Range(cl)}}

\* welcome_msg parsed as handle_client parses it: the connection's username
\* and p2p_port
ParseHandshake(msg, address) ==
    LET default == ServerText.User \o IntToStr(address[2])
    IN IF ~Truthy(msg) THEN [username |-> default, p2p_port |-> 8081]
       ELSE IF StartsWith(msg.val, ServerText.USERNAME)
            THEN [username |-> Slice(Strip(SplitOn(msg.val, 58, 1)[2]), 20),
                  p2p_port |-> 8081]
       ELSE IF StartsWith(msg.val, ServerText.SETUP)
            THEN LET parts == SplitOn(msg.val, 58, -1)
                     port == IF Len(parts) >= 3 THEN ParseInt(parts[3])
                             ELSE [ok |-> FALSE, val |-> 0]
                 IN [username |-> IF Len(parts) >= 2
                                  THEN Slice(Strip(parts[2]), 20) ELSE default,
                     p2p_port |-> IF port.ok THEN port.val ELSE 8081]
       ELSE [username |-> default, p2p_port |-> 8081]

\* len(clients) > MAX_CLIENTS
OverFull(cl) == Len(cl) > MAX_CLIENTS

\* len(clients) >= MAX_CLIENTS
Full(cl) == Len(cl) >= MAX_CLIENTS

\* the frame without the colour tag
PlainChatFrame(user_color_code, current_time, name, message) ==
    <<91>> \o current_time \o <<93, 32>> \o name \o <<58, 32>> \o message

\* f"[COLOR:{user_color_code}][{current_time}] {username}: {message}"
ChatFrame(user_color_code, current_time, name, message) ==
    ServerText.COLOR \o user_color_code \o <<93, 91>> \o current_time
    \o <<93, 32>> \o name \o <<58, 32>> \o message

\* the record's connection port in place of its declared port
PeerInfoWithSourcePort(rec) ==
    ServerText.PEER_INFO \o rec.uname \o <<58>> \o rec.addr[1] \o <<58>>
    \o IntToStr(rec.addr[2])

\* f"PEER_INFO:{uname}:{ip}:{peer_port}"
PeerInfoFrame(rec) ==
    ServerText.PEER_INFO \o rec.uname \o <<58>> \o rec.addr[1] \o <<58>>
    \o IntToStr(rec.p2p_port)

\* f"ERROR: Uživatel '{target_username}' není připojen"
NotFoundFrame(target_username) ==
    ServerText.NotFound1 \o target_username \o ServerText.NotFound2

\* the first record whose uname equals the target ignoring case, 0 if none
FindUser(cl, target_username) ==
    LET at == {i \in DOMAIN cl : Lower(cl[i].uname) = Lower(target_username)}
    IN IF at = {} THEN 0 ELSE MinOf(at)

\* the unames of the list, in order
RECURSIVE Unames(_)
Unames(cl) == IF cl = <<>> THEN <<>> ELSE <<Head(cl).uname>> \o Unames(Tail(cl))

\* f"{uname} ({ip}:{peer_port})" for every record
RECURSIVE PeerLines(_)
PeerLines(cl) ==
    IF cl = <<>> THEN <<>>
    ELSE << Head(cl).uname \o <<32, 40>> \o Head(cl).addr[1] \o <<58>>
            \o IntToStr(Head(cl).p2p_port) \o <<41>> >> \o PeerLines(Tail(cl))

\* user_color.replace('\033[', '').replace('m', '')
ColorCode(user_color) == Replace(Replace(user_color, <<27, 91>>, <<>>), <<109>>, <<>>)

\* the tuple handle_client appends for connection c
NewRecord(c, hs, current_time, cl) ==
    [sock |-> c, addr |-> Address(c), uname |-> hs.username,
     p2p_port |-> hs.p2p_port, last_hb |-> current_time,
     last_msg_time |-> current_time, msg_count |-> 0,
     color |-> ColorCode(get_user_color(Len(cl)))]

\* the greeting, with the number of users read after the insertion
WelcomeFrame(name, user_count) ==
    ServerText.Welcome1 \o name \o ServerText.Welcome2 \o IntToStr(user_count)
    \o ServerText.Welcome3
    \o (IF user_count > 1 THEN ServerText.Welcome3Plural ELSE <<>>)
    \o ServerText.Welcome4

\* f"ERROR: Příliš mnoho zpráv! Maximálně {RATE_LIMIT_MESSAGES} zpráv za
\* {RATE_LIMIT_WINDOW} sekund."
RateLimitFrame ==
    ServerText.RateLimit1 \o IntToStr(RATE_LIMIT_MESSAGES) \o ServerText.RateLimit2
    \o ServerText.RateLimitWindow \o ServerText.RateLimit3

\* f"[{current_time}] Server: {username} opustil chat"
DepartureFrame(current_time, name) ==
    <<91>> \o current_time \o <<93, 32>> \o ServerText.Server \o name
    \o ServerText.Left

\* a frame that starts with "/": the command branches of handle_client, for
\* the handler of connection c whose local username is name
Command(c, name, message, cl, bad) ==
    LET words == Split(message)
        command == IF words # <<>> THEN words[1] ELSE message
        Reply(frame, locked) == SendEvent(c, frame, bad, "reply", locked)
        Res(pc, sends, op) ==
            [clients |-> cl, pc |-> pc, io |-> sends, ev |-> Ev(op, c, message)]
    IN IF command = ServerText.quit
       THEN Res("cleanup", <<Reply(ServerText.Bye, FALSE)>>, "/quit")
       ELSE IF command = ServerText.list
       THEN Res("loop",
                <<Reply(ServerText.UserList
                        \o Join(ServerText.CommaSpace, Unames(cl)), FALSE)>>,
                "/list")
       ELSE IF command = ServerText.getpeer /\ Len(words) >= 2
       THEN LET target_username == words[2]
                i == FindUser(cl, target_username)
            IN Res("loop",
                   <<Reply(IF i # 0 THEN PeerInfoFrame(cl[i])
                           ELSE NotFoundFrame(target_username), TRUE)>>,
                   "/getpeer")
       ELSE IF command = ServerText.pm /\ Len(words) >= 3
       THEN LET parts == SplitOn(message, 32, 2)
            IN IF Len(parts) < 2
               THEN Res("cleanup", <<>>, "raise")    \* parts[1]: IndexError
               ELSE LET target_username == parts[2]
                        pm_message == IF Len(parts) > 2 THEN parts[3] ELSE <<>>
                        i == FindUser(cl, target_username)
                    IN IF i # 0
                       THEN Res("loop",
                                <<SendEvent(cl[i].sock,
                                            ServerText.PmFrom \o name \o <<93, 32>>
                                            \o pm_message, bad, "pm", TRUE),
                                  Reply(ServerText.PmSent \o cl[i].uname, TRUE)>>,
                                "/pm")
                       ELSE Res("loop", <<Reply(NotFoundFrame(target_username), TRUE)>>,
                                "/pm")
       ELSE IF command = ServerText.peers
       THEN Res("loop",
                <<Reply(ServerText.PeerList \o Join(<<10>>, PeerLines(cl)), TRUE)>>,
                "/peers")
       ELSE IF command = ServerText.broadcast /\ Len(words) > 1
       THEN Res("loop", <<Reply(ServerText.BroadcastInfo, FALSE)>>, "/broadcast")
       ELSE IF command = ServerText.help
       THEN Res("loop", <<Reply(ServerText.HelpText, FALSE)>>, "/help")
       ELSE Res("loop", <<Reply(ServerText.Unknown, FALSE)>>, "unknown")

\* a chat message: the colour looked up in the list, the decorated frame
\* broadcast to every record, the sender's included
Chat(c, name, message, cl, bad, t) ==
    LET i == IndexOf(cl, c)
        user_color_code == IF i = 0 THEN ServerText.DefaultColor ELSE cl[i].color
        chat_message == ChatFrame(user_color_code, HHMM(t), name, message)
        b == broadcast_message(cl, chat_message, 0, bad)
    IN [clients |-> b.clients, pc |-> "loop", io |-> b.sends,
        ev |-> EvBroadcast("chat", c, message, 0, b.sent_count)]

IsCommand(message) == StartsWith(message, <<47>>)

\* a frame that is neither blank, nor PONG, nor a command
IsChat(message) ==
    /\ Len(Strip(message)) # 0
    /\ message # ServerText.PONG
    /\ ~IsCommand(message)

\* one round of the handler's loop on a frame that is not empty
\* an alternative in which the rejection ends the handler's loop
LimitedDisconnects(c, message, cl, bad) ==
    [clients |-> cl, pc |-> "cleanup",
     io |-> <<SendEvent(c, RateLimitFrame, bad, "reply", FALSE)>>,
     ev |-> Ev("limited", c, message)]

\* check_rate_limit returned False: the ERROR frame is sent to the sender,
\* outside the lock, and the loop continues
Limited(c, message, cl, bad) ==
    [clients |-> cl, pc |-> "loop",
     io |-> <<SendEvent(c, RateLimitFrame, bad, "reply", FALSE)>>,
     ev |-> Ev("limited", c, message)]

HandleOne(c, name, message, cl, bad, t) ==
    IF Len(Strip(message)) = 0
    THEN [clients |-> cl, pc |-> "loop", io |-> <<>>, ev |-> Ev("blank", c, message)]
    ELSE IF message = ServerText.PONG
    THEN [clients |-> update_heartbeat(cl, c, t), pc |-> "loop", io |-> <<>>,
          ev |-> Ev("pong", c, message)]
    ELSE LET rl == IF IsCommand(message)
                   THEN [allowed |-> TRUE, clients |-> cl, branch |-> "none"]
                   ELSE check_rate_limit(cl, c, t)
         IN IF ~rl.allowed
            THEN Limited(c, message, cl, bad)
            ELSE IF IsCommand(message)
                 THEN Command(c, name, message, update_heartbeat(rl.clients, c, t), bad)
                 ELSE Chat(c, name, message, update_heartbeat(rl.clients, c, t), bad, t)

\* the entry the rate-limiter specification keeps of one chat message: when it
\* came, when the chat message before it came (-1 for the first), whether it
\* was admitted and on which branch, and the record's window start and count
\* afterwards
RateEntry(cl, c, t, log) ==
    LET rl == check_rate_limit(cl, c, t)
        i == IndexOf(cl, c)
    IN [t |-> t, prev |-> IF log = <<>> THEN -1 ELSE log[Len(log)].t,
        admitted |-> rl.allowed, branch |-> rl.branch,
        win |-> IF i = 0 THEN t ELSE rl.clients[i].last_msg_time,
        n |-> IF i = 0 THEN 0 ELSE rl.clients[i].msg_count]

\* the last RATE_LIMIT_MESSAGES + 1 entries
Latest(log) ==
    IF Len(log) > RATE_LIMIT_MESSAGES + 1 THEN Tail(log) ELSE log

-----------------------------------------------------------------------------
(* peer2peer.py: constants and functions over connected_peers.  The dict is  *)
(* a sequence of entries in insertion order, an entry being the key          *)
(* peer_address with the source's tuple (socket, username, last_heartbeat).  *)

\* MAX_PEERS = 50 in the source
MAX_PEERS == 2

\* HEARTBEAT_INTERVAL of peer2peer.py
P2P_HEARTBEAT_INTERVAL == 30 * TicksPerSecond

\* the clock of the peer specification moves by more than three intervals
PeerTickLength == 4 * P2P_HEARTBEAT_INTERVAL

MaxPeerTime == MaxScans * PeerTickLength

\* the address the user gives to /connect: ("10.0.0.9", 8081)
OutAddress == << <<49, 48, 46, 48, 46, 48, 46, 57>>, 8081 >>

\* frames a remote peer sends after the handshake, in the specification of
\* the threads
PeerMessages == {Input.chat, Input.quit}

\* frames a remote peer sends in the specification of the dispatch
PeerDispatchMessages ==
    {Input.chat, Input.blank, Input.list, Input.ping, Input.quit, Input.help}

\* what the user may type to be broadcast
PeerBroadcasts == {Input.chat}

KeyIndex(cp, peer_address) ==
    LET at == {i \in DOMAIN cp : cp[i].peer_address = peer_address}
    IN IF at = {} THEN 0 ELSE MinOf(at)

\* peer_address in connected_peers
HasKey(cp, peer_address) == KeyIndex(cp, peer_address) # 0

\* connected_peers[peer_address] = (sock, uname, last_heartbeat)
PeerPut(cp, peer_address, sock, uname, last_heartbeat) ==
    LET entry == [peer_address |-> peer_address, sock |-> sock, uname |-> uname,
                  last_heartbeat |-> last_heartbeat]
        i == KeyIndex(cp, peer_address)
    IN IF i = 0 THEN Append(cp, entry) ELSE [cp EXCEPT ![i] = entry]

\* if peer_address in connected_peers: del connected_peers[peer_address]
PeerDel(cp, peer_address) ==
    LET Others(e) == e.peer_address # peer_address
    IN SelectSeq(cp, Others)

\* for peer_address in keys: if peer_address in connected_peers: del ...
RECURSIVE PeerDelAll(_, _)
PeerDelAll(cp, keys) ==
    IF keys = <<>> THEN cp ELSE PeerDelAll(PeerDel(cp, Head(keys)), Tail(keys))

\* len(connected_peers) >= MAX_PEERS
PeersFull(cp) == Len(cp) >= MAX_PEERS

\* handle_incoming_peer's reading of the handshake frame
ParsePeerHandshake(msg, peer_address) ==
    IF Truthy(msg) /\ StartsWith(msg.val, PeerText.USERNAME)
    THEN Slice(Strip(SplitOn(msg.val, 58, 1)[2]), 20)
    ELSE PeerText.Peer \o IntToStr(peer_address[2])

\* f"{u} ({a[0]}:{a[1]})" for every entry
RECURSIVE PeerEntries(_)
PeerEntries(cp) ==
    IF cp = <<>> THEN <<>>
    ELSE << Head(cp).uname \o <<32, 40>> \o Head(cp).peer_address[1] \o <<58>>
            \o IntToStr(Head(cp).peer_address[2]) \o <<41>> >>
         \o PeerEntries(Tail(cp))

\* the send_message calls of broadcast_to_all_peers over its snapshot, made
\* without the lock
RECURSIVE PeerBroadcastSends(_, _, _)
PeerBroadcastSends(copy, message, bad) ==
    IF copy = <<>> THEN <<>>
    ELSE <<SendEvent(Head(copy).sock, message, bad, "broadcast", FALSE)>>
         \o PeerBroadcastSends(Tail(copy), message, bad)

\* the keys of the entries of the snapshot whose send failed
RECURSIVE FailedKeys(_, _)
FailedKeys(copy, bad) ==
    IF copy = <<>> THEN <<>>
    ELSE (IF Head(copy).sock \in bad THEN <<Head(copy).peer_address>> ELSE <<>>)
         \o FailedKeys(Tail(copy), bad)

\* current_time - last_heartbeat > HEARTBEAT_INTERVAL * 3
PeerExpired(current_time, last_heartbeat) ==
    current_time - last_heartbeat > P2P_HEARTBEAT_INTERVAL * 3

\* one round of handle_incoming_peer's loop after the heartbeat update: the
\* frame sent back and whether the loop goes on
PeerReply(message, cp) ==
    LET words == Split(message)
        command == IF words # <<>> THEN words[1] ELSE message
    IN IF StartsWith(message, <<47>>) /\ command = PeerText.quit
       THEN [frame |-> PeerText.Bye, pc |-> "cleanup", op |-> "/quit"]
       ELSE IF StartsWith(message, <<47>>) /\ command = PeerText.ping
       THEN [frame |-> PeerText.PONG, pc |-> "loop", op |-> "/ping"]
       ELSE IF StartsWith(message, <<47>>) /\ command = PeerText.list
       THEN [frame |-> PeerText.PeerList
                       \o Join(PeerText.CommaSpace, PeerEntries(cp)),
             pc |-> "loop", op |-> "/list"]
       ELSE [frame |-> PeerText.Echo \o message, pc |-> "loop", op |-> "echo"]

-----------------------------------------------------------------------------
(* server.py, peer2peer.py: the state when the process has started *)

\* the threads that loop "while server_running.is_set()" / "while
\* peer_running.is_set()": the accept loop (main in server.py,
\* listener_thread_func in peer2peer.py), the loop of one handler
\* (handle_client, handle_incoming_peer), receive_from_peer of one outbound
\* connection, and the monitor (heartbeat_monitor, cleanup_thread)
Loops == {"accept", "handler", "receiver", "monitor"}

\* the loops that run from the start of the process
StartedLoops == {"accept", "monitor"}

\* the threads that take the lock of the registry: two connection threads
\* (handle_client; handle_incoming_peer and receive_from_peer), the periodic
\* thread (heartbeat_monitor; cleanup_thread) and main
LockThreads == {"conn1", "conn2", "periodic", "main"}

\* the threads that send to the socket of one client: its own handler
\* answering /list, another handler in broadcast_message, and
\* heartbeat_monitor sending PING
Senders == {"reply", "broadcast", "ping"}

SharedInit ==
    /\ now = 0
    /\ io = <<>>
    /\ ev = Ev("init", 0, <<>>)
    /\ closed = {}
    /\ rejected = {}
    /\ mainexit = "no"
    /\ listener = "open"
    /\ node_running = TRUE
    /\ loop = [t \in Loops |-> IF t \in StartedLoops THEN "check" ELSE "none"]
    /\ wire = <<>>
    /\ sender = [t \in Senders |-> [pc |-> "idle", n |-> 0]]
    /\ lock = "free"
    /\ cs = [t \in LockThreads |-> [pc |-> "idle", line |-> 0, left |-> <<>>]]

ServerInit ==
    /\ clients = <<>>
    /\ hpc = [c \in Conns |-> "new"]
    /\ username = [c \in Conns |-> <<>>]
    /\ p2p_port = [c \in Conns |-> 0]
    /\ mpc = "sleep"
    /\ wake = HEARTBEAT_INTERVAL
    /\ disconnected = <<>>
    /\ active = {}
    /\ rateLog = <<>>

PeerInit ==
    /\ connected_peers = <<>>
    /\ ppc = [c \in Conns |-> "new"]
    /\ peer_username = [c \in Conns |-> <<>>]
    /\ mainpc = "prompt"
    /\ peers_copy = <<>>
    /\ sent_count = 0
    /\ disconnected_peers = <<>>
    /\ cwake = P2P_HEARTBEAT_INTERVAL

-----------------------------------------------------------------------------
(* server.py: the threads.  One step is one critical section of              *)
(* clients_lock, or one round of a handler's loop.                            *)

\* time passes.  A handler that stays in its loop meanwhile has been kept
\* there by frames of white space, which it reads and drops without a change
\* to the record (its receive_message call ends the loop after 60 s without a
\* frame).
Tick(d, limit) ==
    /\ now + d <= limit
    /\ now' = now + d
    /\ io' = <<>>
    /\ ev' = Ev("tick", 0, <<>>)
    /\ UNCHANGED <<prog, mainVars, sendVars, transportVars, closed, rejected, serverVars, peerVars>>

\* main accepts the next connection and starts handle_client, which reads the
\* handshake frame with receive_message(timeout=10.0) and parses it
Accept(c, msg) ==
    /\ prog = "server"
    /\ hpc[c] = "new"
    /\ \A d \in Conns : d < c => hpc[d] # "new"
    /\ LET hs == ParseHandshake(msg, Address(c))
       IN /\ username' = [username EXCEPT ![c] = hs.username]
          /\ p2p_port' = [p2p_port EXCEPT ![c] = hs.p2p_port]
    /\ hpc' = [hpc EXCEPT ![c] = "insert"]
    /\ io' = <<>>
    /\ ev' = Ev("accept", c, msg.val)
    /\ UNCHANGED <<prog, mainVars, sendVars, transportVars, now, closed, rejected, clients, mpc, wake,
                   disconnected, active, rateLog, peerVars>>

\* with clients_lock: the capacity check, then the rejection or the append
Insert(c) ==
    /\ prog = "server"
    /\ hpc[c] = "insert"
    /\ IF Full(clients)
       THEN /\ \E failing \in SUBSET (Flaky \cap {c}) :
                 io' = <<SendEvent(c, ServerText.ServerFull, closed \cup failing,
                                   "reply", TRUE)>>
            /\ closed' = closed \cup {c}
            /\ rejected' = rejected \cup {c}
            /\ hpc' = [hpc EXCEPT ![c] = "cleanup"]
            /\ ev' = Ev("reject", c, <<>>)
            /\ UNCHANGED clients
       ELSE /\ clients' = Append(clients,
                                 NewRecord(c, [username |-> username[c],
                                               p2p_port |-> p2p_port[c]],
                                           now, clients))
            /\ hpc' = [hpc EXCEPT ![c] = "greet"]
            /\ io' = <<>>
            /\ ev' = Ev("insert", c, <<>>)
            /\ UNCHANGED <<closed, rejected>>
    /\ UNCHANGED <<prog, mainVars, sendVars, transportVars, now, username, p2p_port, mpc, wake,
                   disconnected, active, rateLog, peerVars>>

\* user_count read under the lock, the greeting sent, the join broadcast to
\* the others
Greet(c, failing) ==
    /\ prog = "server"
    /\ hpc[c] = "greet"
    /\ LET bad == closed \cup failing
           user_count == Len(clients)
           b == broadcast_message(clients,
                                  ServerText.Server \o username[c] \o ServerText.Joined,
                                  c, bad)
       IN /\ clients' = b.clients
          /\ io' = <<SendEvent(c, WelcomeFrame(username[c], user_count), bad,
                               "reply", FALSE)>> \o b.sends
          /\ ev' = EvBroadcast("greet", c, <<>>, c, b.sent_count)
    /\ hpc' = [hpc EXCEPT ![c] = "loop"]
    /\ UNCHANGED <<prog, mainVars, sendVars, transportVars, now, closed, rejected, username, p2p_port,
                   mpc, wake, disconnected, active, rateLog, peerVars>>

\* receive_message returns a frame that is not empty: one round of the loop
HandleFrame(c, message, failing) ==
    /\ prog \in {"server", "rate"}
    /\ hpc[c] = "loop"
    /\ c \notin closed
    /\ \E r \in {HandleOne(c, username[c], message, clients, closed \cup failing, now)} :
          /\ clients' = r.clients
          /\ io' = r.io
          /\ ev' = r.ev
          /\ hpc' = [hpc EXCEPT ![c] = r.pc]
    /\ active' = IF mpc = "remove" THEN active \cup {c} ELSE active
    /\ rateLog' = IF prog = "rate" /\ IsChat(message)
                  THEN Latest(Append(rateLog, RateEntry(clients, c, now, rateLog)))
                  ELSE rateLog
    /\ UNCHANGED <<prog, mainVars, sendVars, transportVars, now, closed, rejected, username, p2p_port,
                   mpc, wake, disconnected, peerVars>>

\* why receive_message returned no frame to a loop: "timeout" when its
\* timeout passed without a frame (except socket.timeout: return None),
\* "loop_end" for the rest (end of stream, a prefix over the limit, bytes
\* that are not UTF-8, a closed socket, an empty frame)
ReadEnds == {"timeout", "loop_end"}

\* what receive_message returns for a frame whose prefix says 0 bytes: the
\* body loop is not entered and b''.decode('utf-8') is returned
EmptyFrame == Utf8Decode(<<>>)

\* receive_message returns None (end of stream, 60 s without a frame, a
\* prefix over the limit, bytes that are not UTF-8, a closed socket) or '':
\* if not message: break
LoopEnd(c, why) ==
    /\ prog = "server"
    /\ hpc[c] = "loop"
    /\ why = "empty" => ~Truthy(EmptyFrame)
    /\ hpc' = [hpc EXCEPT ![c] = "cleanup"]
    /\ io' = <<>>
    /\ ev' = Ev(why, c, <<>>)
    /\ UNCHANGED <<prog, mainVars, sendVars, transportVars, now, closed, rejected, clients, username,
                   p2p_port, mpc, wake, disconnected, active, rateLog, peerVars>>

\* an alternative that removes nothing
WithSocket(cl, client_socket) == cl

\* clients without clients_to_remove, the records of the socket
WithoutSocket(cl, client_socket) ==
    SelectSeq(cl, LAMBDA r : r.sock # client_socket)

\* finally: with clients_lock: the handler's records are removed
CleanupRemove(c) ==
    /\ prog = "server"
    /\ hpc[c] = "cleanup"
    /\ clients' = WithoutSocket(clients, c)
    /\ hpc' = [hpc EXCEPT ![c] = "finish"]
    /\ io' = <<>>
    /\ ev' = Ev("cleanup", c, <<>>)
    /\ UNCHANGED <<prog, mainVars, sendVars, transportVars, now, closed, rejected, username, p2p_port,
                   mpc, wake, disconnected, active, rateLog, peerVars>>

\* finally: the departure is broadcast and the socket closed
Finish(c, failing) ==
    /\ prog = "server"
    /\ hpc[c] = "finish"
    /\ LET b == broadcast_message(clients, DepartureFrame(HHMM(now), username[c]),
                                  0, closed \cup failing)
       IN /\ clients' = b.clients
          /\ io' = b.sends
          /\ ev' = EvBroadcast("finish", c, <<>>, 0, b.sent_count)
    /\ closed' = closed \cup {c}
    /\ hpc' = [hpc EXCEPT ![c] = "done"]
    /\ UNCHANGED <<prog, mainVars, sendVars, transportVars, now, rejected, username, p2p_port, mpc, wake,
                   disconnected, active, rateLog, peerVars>>

\* the PING sends of one scan: to every record that has not expired
RECURSIVE PingSends(_, _, _)
PingSends(cl, current_time, bad) ==
    IF cl = <<>> THEN <<>>
    ELSE IF HeartbeatExpired(current_time, Head(cl).last_hb)
         THEN PingSends(Tail(cl), current_time, bad)
         ELSE <<SendEvent(Head(cl).sock, ServerText.PING, bad, "ping", TRUE)>>
              \o PingSends(Tail(cl), current_time, bad)

\* heartbeat_monitor wakes from time.sleep(HEARTBEAT_INTERVAL) and scans the
\* list under the lock.  send_message returns False when sendall fails and
\* raises nothing, so only expired records are marked.
Scan(failing) ==
    /\ prog = "server"
    /\ mpc = "sleep"
    /\ now >= wake
    /\ LET Expired(r) == HeartbeatExpired(now, r.last_hb)
           marked == SelectSeq(clients, Expired)
       IN /\ disconnected' = marked
          /\ mpc' = IF marked = <<>> THEN "sleep" ELSE "remove"
          /\ wake' = IF marked = <<>> THEN now + HEARTBEAT_INTERVAL ELSE wake
    /\ io' = PingSends(clients, now, closed \cup failing)
    /\ ev' = Ev("scan", 0, <<>>)
    /\ active' = {}
    /\ UNCHANGED <<prog, mainVars, sendVars, transportVars, now, closed, rejected, clients, hpc, username,
                   p2p_port, rateLog, peerVars>>

\* if disconnected: with clients_lock: the marked tuples still in the list are
\* removed and their sockets closed
Remove ==
    /\ prog = "server"
    /\ mpc = "remove"
    /\ clients' = RemoveAll(clients, disconnected)
    /\ closed' = closed \cup ClosedByMonitor(clients, disconnected)
    /\ disconnected' = <<>>
    /\ mpc' = "sleep"
    /\ wake' = now + HEARTBEAT_INTERVAL
    /\ active' = {}
    /\ io' = <<>>
    /\ ev' = Ev("remove", 0, [k \in DOMAIN disconnected |-> disconnected[k].sock])
    /\ UNCHANGED <<prog, mainVars, sendVars, transportVars, now, rejected, hpc, username, p2p_port,
                   rateLog, peerVars>>

\* the sender's burst in the current rate window is still short
BurstOK(c) ==
    LET i == IndexOf(clients, c)
    IN IF i = 0 THEN TRUE
       ELSE clients[i].msg_count < MaxBurst
            \/ WindowElapsed(now, clients[i].last_msg_time)

\* the steps of the handlers of the connections in C, on frames from M
HandlerNext(C, M) ==
    \/ \E c \in C : \E msg \in Handshakes(c) : Accept(c, msg)
    \/ \E c \in C : Insert(c)
    \/ \E c \in C : \E failing \in SUBSET (Flaky \cap (Sockets(clients) \cup {c})) :
           Greet(c, failing)
    \/ \E c \in C : \E message \in M :
           \E failing \in SUBSET (Flaky \cap (Sockets(clients) \cup {c})) :
               /\ prog = "server"
               /\ IsChat(message) => BurstOK(c)
               /\ HandleFrame(c, message, failing)
    \/ \E c \in C : \E why \in ReadEnds : LoopEnd(c, why)
    \/ \E c \in C : CleanupRemove(c)
    \/ \E c \in C : \E failing \in SUBSET (Flaky \cap Sockets(clients)) :
           Finish(c, failing)

\* the server while no heartbeat interval elapses
ServerNext == HandlerNext(Conns, Messages)

\* the server with its heartbeat monitor, as time passes
ServerHeartbeatNext ==
    \/ HandlerNext(HeartbeatConns, HeartbeatMessages)
    \/ \E failing \in SUBSET (Flaky \cap Sockets(clients)) : Scan(failing)
    \/ Remove
    \/ prog = "server" /\ Tick(HEARTBEAT_INTERVAL, MaxTime)

InitServer ==
    /\ prog = "server"
    /\ TransportInit
    /\ SharedInit
    /\ ServerInit
    /\ PeerInit

-----------------------------------------------------------------------------
(* The rate limiter on its own: connections 1 and 2 are registered at tick   *)
(* 0; connection 1 sends frames as the clock moves in single ticks and       *)
(* connection 2 only listens; every send goes through.                       *)

RateMessages == {Input.chat, Input.list, Input.pong, Input.blank}

InitRate ==
    /\ prog = "rate"
    /\ TransportInit
    /\ SharedInit
    /\ PeerInit
    /\ LET hs == [c \in {1, 2} |->
                     ParseHandshake(CHOOSE m \in Handshakes(c) : TRUE, Address(c))]
           first == <<NewRecord(1, hs[1], 0, <<>>)>>
       IN /\ clients = Append(first, NewRecord(2, hs[2], 0, first))
          /\ username = [c \in Conns |-> IF c \in {1, 2} THEN hs[c].username ELSE <<>>]
          /\ p2p_port = [c \in Conns |-> IF c \in {1, 2} THEN hs[c].p2p_port ELSE 0]
    /\ hpc = [c \in Conns |-> IF c \in {1, 2} THEN "loop" ELSE "new"]
    /\ mpc = "sleep"
    /\ wake = HEARTBEAT_INTERVAL
    /\ disconnected = <<>>
    /\ active = {}
    /\ rateLog = <<>>

RateNext ==
    \/ \E message \in RateMessages : HandleFrame(1, message, {})
    \/ prog = "rate" /\ Tick(1, MaxRateTicks)

SpecRate == InitRate /\ [][RateNext]_vars

-----------------------------------------------------------------------------
(* peer2peer.py: the threads *)

\* c is the next connection of the process, inbound or outbound
NextConn(c) == ppc[c] = "new" /\ \A d \in Conns : d < c => ppc[d] # "new"

\* the listener accepts a connection and starts handle_incoming_peer, which
\* reads the handshake frame
PeerAccept(c, msg) ==
    /\ prog = "peer"
    /\ NextConn(c)
    /\ peer_username' = [peer_username EXCEPT ![c] = ParsePeerHandshake(msg, Address(c))]
    /\ ppc' = [ppc EXCEPT ![c] = "insert"]
    /\ io' = <<>>
    /\ ev' = Ev("accept", c, msg.val)
    /\ UNCHANGED <<prog, mainVars, sendVars, transportVars, now, closed, rejected, serverVars,
                   connected_peers, mainpc, peers_copy, sent_count,
                   disconnected_peers, cwake>>

\* with peers_lock: the capacity check, then the rejection or the insertion;
\* after the insertion the greeting is sent
PeerInsert(c, failing) ==
    /\ prog = "peer"
    /\ ppc[c] = "insert"
    /\ IF PeersFull(connected_peers)
       THEN /\ io' = <<SendEvent(c, PeerText.Full, closed \cup failing, "reply", TRUE)>>
            /\ closed' = closed \cup {c}
            /\ rejected' = rejected \cup {c}
            /\ ppc' = [ppc EXCEPT ![c] = "cleanup"]
            /\ ev' = Ev("reject", c, <<>>)
            /\ UNCHANGED connected_peers
       ELSE /\ connected_peers' =
                   PeerPut(connected_peers, Address(c), c, peer_username[c], now)
            /\ io' = <<SendEvent(c, PeerText.Welcome1 \o peer_username[c]
                                    \o PeerText.Welcome2 \o PeerText.username
                                    \o PeerText.Welcome3,
                                 closed \cup failing, "reply", FALSE)>>
            /\ ppc' = [ppc EXCEPT ![c] = "loop"]
            /\ ev' = Ev("insert", c, <<>>)
            /\ UNCHANGED <<closed, rejected>>
    /\ UNCHANGED <<prog, mainVars, sendVars, transportVars, now, serverVars, peer_username, mainpc,
                   peers_copy, sent_count, disconnected_peers, cwake>>

\* receive_message returns a frame that is not empty: the heartbeat of the
\* entry under the handler's key is refreshed and the frame answered
PeerHandleFrame(c, message, failing) ==
    /\ prog = "peer"
    /\ ppc[c] = "loop"
    /\ c \notin closed
    /\ LET i == KeyIndex(connected_peers, Address(c))
           cp == IF i = 0 THEN connected_peers
                 ELSE [connected_peers EXCEPT ![i].last_heartbeat = now]
           r == PeerReply(message, cp)
       IN /\ connected_peers' = cp
          /\ io' = <<SendEvent(c, r.frame, closed \cup failing, "reply", FALSE)>>
          /\ ppc' = [ppc EXCEPT ![c] = r.pc]
          /\ ev' = Ev(r.op, c, message)
    /\ UNCHANGED <<prog, mainVars, sendVars, transportVars, now, closed, rejected, serverVars,
                   peer_username, mainpc, peers_copy, sent_count,
                   disconnected_peers, cwake>>

\* receive_message(timeout=HEARTBEAT_INTERVAL) returns None or '':
\* if not message: break
PeerLoopEnd(c, why) ==
    /\ prog = "peer"
    /\ ppc[c] = "loop"
    /\ ppc' = [ppc EXCEPT ![c] = "cleanup"]
    /\ io' = <<>>
    /\ ev' = Ev(why, c, <<>>)
    /\ UNCHANGED <<prog, mainVars, sendVars, transportVars, now, closed, rejected, serverVars,
                   connected_peers, peer_username, mainpc, peers_copy, sent_count,
                   disconnected_peers, cwake>>

\* finally: the entry under the handler's key is deleted, the socket closed
PeerCleanup(c) ==
    /\ prog = "peer"
    /\ ppc[c] = "cleanup"
    /\ connected_peers' = PeerDel(connected_peers, Address(c))
    /\ closed' = closed \cup {c}
    /\ ppc' = [ppc EXCEPT ![c] = "done"]
    /\ io' = <<>>
    /\ ev' = Ev("cleanup", c, <<>>)
    /\ UNCHANGED <<prog, mainVars, sendVars, transportVars, now, rejected, serverVars, peer_username,
                   mainpc, peers_copy, sent_count, disconnected_peers, cwake>>

\* /connect: connect_to_peer finds the address not connected, opens a socket
\* and sends the handshake; it then waits up to 5 s for the greeting
ConnectStart(c, failing) ==
    /\ prog = "peer"
    /\ mainpc = "prompt"
    /\ NextConn(c)
    /\ ~HasKey(connected_peers, OutAddress)
    /\ ppc' = [ppc EXCEPT ![c] = "connecting"]
    /\ mainpc' = "connecting"
    /\ io' = <<SendEvent(c, PeerText.USERNAME \o PeerText.username,
                         closed \cup failing, "handshake", FALSE)>>
    /\ ev' = Ev("connect", c, <<>>)
    /\ UNCHANGED <<prog, mainVars, sendVars, transportVars, now, closed, rejected, serverVars,
                   connected_peers, peer_username, peers_copy, sent_count,
                   disconnected_peers, cwake>>

\* connect_to_peer stores the entry under the lock, with no capacity check,
\* and starts receive_from_peer
ConnectFinish(c) ==
    /\ prog = "peer"
    /\ mainpc = "connecting"
    /\ ppc[c] = "connecting"
    /\ connected_peers' =
           PeerPut(connected_peers, OutAddress, c,
                   PeerText.Peer \o IntToStr(OutAddress[2]), now)
    /\ ppc' = [ppc EXCEPT ![c] = "receiver"]
    /\ mainpc' = "prompt"
    /\ io' = <<>>
    /\ ev' = Ev("connected", c, <<>>)
    /\ UNCHANGED <<prog, mainVars, sendVars, transportVars, now, closed, rejected, serverVars,
                   peer_username, peers_copy, sent_count, disconnected_peers, cwake>>

\* receive_from_peer: receive_message(timeout=1.0) returns a non-empty frame;
\* it is printed and the loop goes on; the entry's last_heartbeat is not
\* written
ReceiverFrame(c, message) ==
    /\ prog = "peer"
    /\ ppc[c] = "receiver"
    /\ c \notin closed
    /\ message # <<>>
    /\ io' = <<>>
    /\ ev' = Ev("received", c, message)
    /\ UNCHANGED <<prog, mainVars, sendVars, transportVars, now, closed, rejected, serverVars,
                   connected_peers, ppc, peer_username, mainpc, peers_copy, sent_count,
                   disconnected_peers, cwake>>

\* receive_from_peer: receive_message(timeout=1.0) returns None (a second
\* without a frame, end of stream, an error); the loop ends and the entry
\* under the address is deleted
ReceiverEnd(c, why) ==
    /\ prog = "peer"
    /\ ppc[c] = "receiver"
    /\ connected_peers' = PeerDel(connected_peers, OutAddress)
    /\ ppc' = [ppc EXCEPT ![c] = "done"]
    /\ io' = <<>>
    /\ ev' = Ev(IF why = "timeout" THEN why ELSE "receiver_end", c, <<>>)
    /\ UNCHANGED <<prog, mainVars, sendVars, transportVars, now, closed, rejected, serverVars,
                   peer_username, mainpc, peers_copy, sent_count,
                   disconnected_peers, cwake>>

\* broadcast_to_all_peers: the snapshot under the lock, then the sends
BroadcastSend(message, failing) ==
    /\ prog = "peer"
    /\ mainpc = "prompt"
    /\ LET sends == PeerBroadcastSends(connected_peers, message, closed \cup failing)
           Succeeded(e) == e.ok
       IN /\ io' = sends
          /\ sent_count' = Len(SelectSeq(sends, Succeeded))
    /\ peers_copy' = connected_peers
    /\ disconnected_peers' = FailedKeys(connected_peers, closed \cup failing)
    /\ mainpc' = "bcast"
    /\ ev' = Ev("broadcast_send", 0, message)
    /\ UNCHANGED <<prog, mainVars, sendVars, transportVars, now, closed, rejected, serverVars,
                   connected_peers, ppc, peer_username, cwake>>

\* broadcast_to_all_peers: the failed addresses are deleted under the lock and
\* sent_count is returned
BroadcastFinish ==
    /\ prog = "peer"
    /\ mainpc = "bcast"
    /\ connected_peers' = PeerDelAll(connected_peers, disconnected_peers)
    /\ mainpc' = "prompt"
    /\ peers_copy' = <<>>
    /\ disconnected_peers' = <<>>
    /\ sent_count' = 0
    /\ io' = <<>>
    /\ ev' = EvBroadcast("broadcast_return", 0, <<>>, 0, sent_count)
    /\ UNCHANGED <<prog, mainVars, sendVars, transportVars, now, closed, rejected, serverVars, ppc,
                   peer_username, cwake>>

\* /disconnect: with peers_lock: "/quit" is sent, the socket closed, the entry
\* deleted
Disconnect(i, failing) ==
    /\ prog = "peer"
    /\ mainpc = "prompt"
    /\ i \in DOMAIN connected_peers
    /\ io' = <<SendEvent(connected_peers[i].sock, PeerText.quit, closed \cup failing,
                         "quit", TRUE)>>
    /\ closed' = closed \cup {connected_peers[i].sock}
    /\ connected_peers' = PeerDel(connected_peers, connected_peers[i].peer_address)
    /\ ev' = Ev("disconnect", connected_peers[i].sock, <<>>)
    /\ UNCHANGED <<prog, mainVars, sendVars, transportVars, now, rejected, serverVars, ppc, peer_username,
                   mainpc, peers_copy, sent_count, disconnected_peers, cwake>>

\* cleanup_thread wakes and runs cleanup_disconnected_peers: under the lock,
\* the sockets of the expired entries are closed and the entries deleted
PeerCleanupScan ==
    /\ prog = "peer"
    /\ now >= cwake
    /\ LET Expired(e) == PeerExpired(now, e.last_heartbeat)
           Fresh(e) == ~PeerExpired(now, e.last_heartbeat)
           gone == SelectSeq(connected_peers, Expired)
       IN /\ connected_peers' = SelectSeq(connected_peers, Fresh)
          /\ closed' = closed \cup {gone[i].sock : i \in DOMAIN gone}
    /\ cwake' = now + P2P_HEARTBEAT_INTERVAL
    /\ io' = <<>>
    /\ ev' = Ev("peer_cleanup", 0, <<>>)
    /\ UNCHANGED <<prog, mainVars, sendVars, transportVars, now, rejected, serverVars, ppc, peer_username,
                   mainpc, peers_copy, sent_count, disconnected_peers>>

\* the steps of the threads that serve the connections in C
PeerThreadsNext(C) ==
    \/ \E c \in C : \E msg \in Handshakes(c) : PeerAccept(c, msg)
    \/ \E c \in C : \E failing \in SUBSET (Flaky \cap {c}) : PeerInsert(c, failing)
    \/ \E c \in C : \E message \in PeerMessages :
           \E failing \in SUBSET (Flaky \cap {c}) : PeerHandleFrame(c, message, failing)
    \/ \E c \in C : \E why \in ReadEnds : PeerLoopEnd(c, why)
    \/ \E c \in C : PeerCleanup(c)
    \/ \E c \in C : \E failing \in SUBSET (Flaky \cap {c}) : ConnectStart(c, failing)
    \/ \E c \in C : ConnectFinish(c)
    \/ \E c \in C : ReceiverFrame(c, Input.chat)
    \/ \E c \in C : \E why \in ReadEnds : ReceiverEnd(c, why)
    \/ \E message \in PeerBroadcasts : \E failing \in SUBSET (Flaky \ closed) :
           BroadcastSend(message, failing)
    \/ BroadcastFinish
    \/ \E i \in 1..(MAX_PEERS + 1) : \E failing \in SUBSET (Flaky \ closed) :
           Disconnect(i, failing)

\* the peer while no heartbeat interval elapses
PeerNext == PeerThreadsNext(Conns)

\* the peer with its cleanup thread, as time passes
PeerHeartbeatNext ==
    \/ PeerThreadsNext(HeartbeatConns)
    \/ PeerCleanupScan
    \/ prog = "peer" /\ Tick(PeerTickLength, MaxPeerTime)

InitPeer ==
    /\ prog = "peer"
    /\ TransportInit
    /\ SharedInit
    /\ ServerInit
    /\ PeerInit

-----------------------------------------------------------------------------
(* The end of main: its finally block, in one step.  The process ends with   *)
(* main, and the daemon threads of the connections with it.                  *)

\* "Peer se ukončuje..."
PeerFarewell ==
    <<80, 101, 101, 114, 32, 115, 101, 32, 117, 107, 111, 110, 269, 117, 106, 101,
      46, 46, 46>>

\* "Server se ukončuje..."
ServerFarewell ==
    <<83, 101, 114, 118, 101, 114, 32, 115, 101, 32, 117, 107, 111, 110, 269, 117,
      106, 101, 46, 46, 46>>

\* the for statement of the server's finally block unpacks each record into
\* seven names; the records of clients have eight fields, so the first record
\* raises ValueError
UnpackTargets == 7

\* the fields of a record of clients
RecordFields ==
    Cardinality(DOMAIN NewRecord(1, ParseHandshake(None, Address(1)), 0, <<>>))

\* the finally block runs to its end for no record at all
UnpacksAll(cl) == cl = <<>> \/ RecordFields = UnpackTargets

\* server.py, main, finally: server_running.clear(); with clients_lock: for
\* each record "Server se ukončuje..." is sent and the socket closed;
\* clients.clear(); server.close().  The unpacking of the first record raises
\* before anything is sent, and the exception leaves main.
ServerShutdown ==
    /\ prog = "server"
    /\ mainexit = "no"
    /\ IF UnpacksAll(clients)
       THEN /\ io' = [i \in DOMAIN clients |->
                         SendEvent(clients[i].sock, ServerFarewell, closed,
                                   "farewell", TRUE)]
            /\ closed' = closed \cup Sockets(clients)
            /\ clients' = <<>>
            /\ listener' = "closed"
            /\ mainexit' = "returned"
       ELSE /\ io' = <<>>
            /\ mainexit' = "raised"
            /\ UNCHANGED <<closed, clients, listener>>
    /\ node_running' = FALSE
    /\ loop' = loop
    /\ ev' = Ev("shutdown", 0, <<>>)
    /\ UNCHANGED <<prog, sendVars, transportVars, now, rejected, hpc, username,
                   p2p_port, mpc, wake, disconnected, active, rateLog, peerVars>>

\* peer2peer.py, main, finally (after /quit at the prompt):
\* peer_running.clear(); with peers_lock: for each entry "Peer se
\* ukončuje..." is sent and the socket closed; connected_peers.clear();
\* listener_socket.close()
PeerShutdown(failing) ==
    /\ prog = "peer"
    /\ mainexit = "no"
    /\ mainpc = "prompt"
    /\ io' = [i \in DOMAIN connected_peers |->
                 SendEvent(connected_peers[i].sock, PeerFarewell, closed \cup failing,
                           "farewell", TRUE)]
    /\ closed' = closed \cup {connected_peers[i].sock : i \in DOMAIN connected_peers}
    /\ connected_peers' = <<>>
    /\ listener' = "closed"
    /\ mainexit' = "returned"
    /\ node_running' = FALSE
    /\ loop' = loop
    /\ ev' = Ev("shutdown", 0, <<>>)
    /\ UNCHANGED <<prog, sendVars, transportVars, now, rejected, serverVars, ppc,
                   peer_username, mainpc, peers_copy, sent_count,
                   disconnected_peers, cwake>>

\* the threads run while main has not ended; main ends once
ShutdownNext ==
    \/ mainexit = "no" /\ ServerNext
    \/ mainexit = "no" /\ PeerNext
    \/ ServerShutdown
    \/ \E failing \in SUBSET (Flaky \ closed) : PeerShutdown(failing)

-----------------------------------------------------------------------------
(* The specifications *)

InitTransport ==
    /\ prog = "transport"
    /\ TransportInit
    /\ SharedInit
    /\ ServerInit
    /\ PeerInit

SpecTransport == InitTransport /\ [][TransportNext]_vars

Init == InitServer \/ InitPeer

Next == ServerNext \/ PeerNext

Spec == Init /\ [][Next]_vars

HeartbeatNext == ServerHeartbeatNext \/ PeerHeartbeatNext

SpecHeartbeat == Init /\ [][HeartbeatNext]_vars

\* the threads of either program, and the end of its main
SpecShutdown == Init /\ [][ShutdownNext]_vars

-----------------------------------------------------------------------------
(* send_message on one socket of the server, from the threads that write to  *)
(* it: each call is two sendall calls, the prefix and then the payload.      *)

\* the senders that call send_message inside "with clients_lock:"
LockedSenders == {"broadcast", "ping"}

\* what each of them sends
SenderMessage(t) ==
    CASE t = "reply" -> ServerText.UserList \o Input.chat
      [] t = "broadcast" -> DepartureFrame(HHMM(0), Input.chat)
      [] OTHER -> ServerText.PING

\* the send_message calls made so far, those in progress included
RECURSIVE CallsOf(_)
CallsOf(S) ==
    IF S = {} THEN 0
    ELSE LET t == CHOOSE x \in S : TRUE
         IN sender[t].n + (IF sender[t].pc = "body" THEN 1 ELSE 0) + CallsOf(S \ {t})

CallsMade == CallsOf(Senders)

\* sock.sendall(length_prefix), for a locked sender after it took the lock
SendPrefix(t) ==
    /\ prog = "send"
    /\ sender[t].pc = "idle"
    /\ CallsMade < 2 * MaxSends
    /\ t \in LockedSenders => lock = "free"
    /\ wire' = wire \o PackLen(Len(Utf8Encode(SenderMessage(t))))
    /\ sender' = [sender EXCEPT ![t].pc = "body"]
    /\ lock' = IF t \in LockedSenders THEN t ELSE lock
    /\ cs' = cs
    /\ UNCHANGED <<prog, transportVars, sharedVars, mainVars, serverVars, peerVars>>

\* sock.sendall(message_bytes); a locked sender then leaves the with block
SendBody(t) ==
    /\ prog = "send"
    /\ sender[t].pc = "body"
    /\ wire' = wire \o Utf8Encode(SenderMessage(t))
    /\ sender' = [sender EXCEPT ![t].pc = "idle", ![t].n = sender[t].n + 1]
    /\ lock' = IF t \in LockedSenders THEN "free" ELSE lock
    /\ cs' = cs
    /\ UNCHANGED <<prog, transportVars, sharedVars, mainVars, serverVars, peerVars>>

SendNext == \/ \E t \in Senders : SendPrefix(t)
            \/ \E t \in Senders : SendBody(t)

InitSend ==
    /\ prog = "send"
    /\ TransportInit
    /\ SharedInit
    /\ ServerInit
    /\ PeerInit

SpecSend == InitSend /\ [][SendNext]_vars

-----------------------------------------------------------------------------
(* The lock of the registry (clients_lock, peers_lock, a threading.Lock that *)
(* is not reentrant): every "with" block of the two programs, the thread     *)
(* that runs it and the calls it makes while it holds the lock.              *)

\* the with blocks, by the line of the with statement
WithBlocks ==
    [server |->
       { [line |-> 157, by |-> "conn", calls |-> <<>>],
         [line |-> 183, by |-> "conn", calls |-> <<>>],
         [line |-> 199, by |-> "periodic", calls |-> <<"send_message">>],
         [line |-> 215, by |-> "periodic", calls |-> <<"close">>],
         [line |-> 240, by |-> "conn", calls |-> <<"send_message">>],
         [line |-> 300, by |-> "conn", calls |-> <<"send_message", "close">>],
         [line |-> 315, by |-> "conn", calls |-> <<>>],
         [line |-> 366, by |-> "conn", calls |-> <<>>],
         [line |-> 372, by |-> "conn", calls |-> <<"send_message">>],
         [line |-> 387, by |-> "conn", calls |-> <<"send_message", "send_message">>],
         [line |-> 400, by |-> "conn", calls |-> <<"send_message">>],
         [line |-> 435, by |-> "conn", calls |-> <<>>],
         [line |-> 461, by |-> "conn", calls |-> <<>>],
         [line |-> 556, by |-> "main", calls |-> <<"unpack", "send_message", "close">>] },
     peer |->
       { [line |-> 145, by |-> "conn", calls |-> <<"send_message", "close">>],
         [line |-> 165, by |-> "conn", calls |-> <<>>],
         [line |-> 180, by |-> "conn", calls |-> <<>>],
         [line |-> 195, by |-> "conn", calls |-> <<>>],
         [line |-> 263, by |-> "main", calls |-> <<"print">>],
         [line |-> 283, by |-> "main", calls |-> <<>>],
         [line |-> 303, by |-> "conn", calls |-> <<>>],
         [line |-> 336, by |-> "main", calls |-> <<"print">>],
         [line |-> 359, by |-> "main", calls |-> <<>>],
         [line |-> 373, by |-> "main", calls |-> <<>>],
         [line |-> 388, by |-> "periodic", calls |-> <<"close">>],
         [line |-> 477, by |-> "main", calls |-> <<"print">>],
         [line |-> 509, by |-> "main", calls |-> <<"send_message", "close", "print">>],
         [line |-> 561, by |-> "main", calls |-> <<"send_message", "close">>] }]

\* the functions whose body takes the lock
LockingFunctions ==
    [server |-> {"check_rate_limit", "update_heartbeat", "broadcast_message"},
     peer |-> {"connect_to_peer", "send_to_peer", "broadcast_to_all_peers",
               "cleanup_disconnected_peers"}]

\* a call of f takes the lock, whoever makes it
LocksInsideAlways(f) == TRUE

\* a call of f takes the lock
LocksInside(f) == f \in LockingFunctions[prog]

\* a call that can raise inside a with block: the unpacking of a record in
\* main's finally block of server.py; send_message catches what sendall
\* raises and close() is called in a try block
Raises(f) == f = "unpack"

ThreadKind(t) == IF t \in {"conn1", "conn2"} THEN "conn" ELSE t

\* a thread comes to a with statement
LockEnter(t, b) ==
    /\ prog \in {"server", "peer"}
    /\ cs[t].pc = "idle"
    /\ b \in WithBlocks[prog]
    /\ b.by = ThreadKind(t)
    /\ cs' = [cs EXCEPT ![t] = [pc |-> "waiting", line |-> b.line, left |-> b.calls]]
    /\ UNCHANGED <<prog, transportVars, sharedVars, mainVars, wire, sender, lock,
                   serverVars, peerVars>>

\* lock.acquire() returns
LockAcquire(t) ==
    /\ prog \in {"server", "peer"}
    /\ cs[t].pc = "waiting"
    /\ lock = "free"
    /\ lock' = t
    /\ cs' = [cs EXCEPT ![t].pc = "inside"]
    /\ UNCHANGED <<prog, transportVars, sharedVars, mainVars, wire, sender,
                   serverVars, peerVars>>

\* the next call inside the with block: a function that takes the lock never
\* returns to the thread that holds it; a call that raises leaves the with
\* block, which releases the lock; any other call returns
LockCall(t, raised) ==
    /\ prog \in {"server", "peer"}
    /\ cs[t].pc = "inside"
    /\ cs[t].left # <<>>
    /\ raised => Raises(Head(cs[t].left))
    /\ IF LocksInside(Head(cs[t].left))
       THEN /\ cs' = [cs EXCEPT ![t].pc = "blocked"]
            /\ lock' = lock
       ELSE IF raised
       THEN /\ cs' = [cs EXCEPT ![t] = [pc |-> "idle", line |-> 0, left |-> <<>>]]
            /\ lock' = "free"
       ELSE /\ cs' = [cs EXCEPT ![t].left = Tail(cs[t].left)]
            /\ lock' = lock
    /\ UNCHANGED <<prog, transportVars, sharedVars, mainVars, wire, sender,
                   serverVars, peerVars>>

\* the end of the with block: lock.release()
LockLeave(t) ==
    /\ prog \in {"server", "peer"}
    /\ cs[t].pc = "inside"
    /\ cs[t].left = <<>>
    /\ lock' = "free"
    /\ cs' = [cs EXCEPT ![t] = [pc |-> "idle", line |-> 0, left |-> <<>>]]
    /\ UNCHANGED <<prog, transportVars, sharedVars, mainVars, wire, sender,
                   serverVars, peerVars>>

LockNext ==
    \/ \E t \in LockThreads : \E b \in WithBlocks[prog] : LockEnter(t, b)
    \/ \E t \in LockThreads : LockAcquire(t)
    \/ \E t \in LockThreads : \E raised \in BOOLEAN : LockCall(t, raised)
    \/ \E t \in LockThreads : LockLeave(t)

\* a thread inside a with block goes on (the sends return), and a thread that
\* waits for the lock is not passed over for ever
LockFairness ==
    \A t \in LockThreads :
        /\ WF_vars(\E raised \in BOOLEAN : LockCall(t, raised))
        /\ WF_vars(LockLeave(t))
        /\ SF_vars(LockAcquire(t))

SpecLock == Init /\ [][LockNext]_vars /\ LockFairness

-----------------------------------------------------------------------------
(* The heartbeat of a client that only answers PING: the clock moves in      *)
(* steps of one read timeout, the monitor scans when its sleep is over, each *)
(* client sends PONG when a scan has sent it PING and nothing else, and no   *)
(* thread stands still between two of its steps while the clock moves.       *)

\* MESSAGE_TIMEOUT = 60.0, the timeout of handle_client's receive_message call
MESSAGE_TIMEOUT == 60 * TicksPerSecond

PongMaxTime == (MaxScans + 1) * HEARTBEAT_INTERVAL

\* a receive_message call whose last frame came at last_frame cannot still be
\* waiting at current_time
ReadNeverOverdue(current_time, last_frame) == FALSE

ReadOverdue(current_time, last_frame) ==
    current_time - last_frame > MESSAGE_TIMEOUT

\* the last frame of a client that sends only PONG came when its record's
\* last_heartbeat was written: at the insertion, or at its last PONG
PongTick ==
    /\ prog = "server"
    /\ mpc = "sleep" /\ now < wake
    /\ \A c \in HeartbeatConns :
          /\ hpc[c] \in {"new", "loop", "done"}
          /\ (hpc[c] = "loop" /\ c \in Sockets(clients))
               => ~ReadOverdue(now + MESSAGE_TIMEOUT,
                               clients[IndexOf(clients, c)].last_hb)
    /\ Tick(MESSAGE_TIMEOUT, PongMaxTime)

\* the client answers the PING of the scan that has just run, once
PongNext ==
    \/ /\ HandlerNext(HeartbeatConns, {Input.pong})
       /\ ev'.op = "pong"
            => /\ mpc = "sleep" /\ wake = now + HEARTBEAT_INTERVAL
               /\ ev'.c \in Sockets(clients)
               /\ clients[IndexOf(clients, ev'.c)].last_hb < now
    \/ \E failing \in SUBSET (Flaky \cap Sockets(clients)) : Scan(failing)
    \/ PongTick

SpecPong == InitServer /\ [][PongNext]_vars

-----------------------------------------------------------------------------
(* receive_message under read timeouts: a writer of well-formed short frames, *)
(* a network that delivers them in pieces, and a reader whose recv can time   *)
(* out wherever the buffer is empty.                                          *)

ResyncNext ==
    \/ \E payload \in ShortPayloads : SendMessage(payload)
    \/ \E k \in 1..(4 + MaxMessageLength + 1) : Deliver(k)
    \/ CallReceive
    \/ RecvLength
    \/ RecvBody
    \/ RecvTimeout
    \/ RecvTimeoutMidFrame
    \/ HandleResult

SpecResync == InitTransport /\ [][ResyncNext]_vars

-----------------------------------------------------------------------------
(* Cancellation: the loops that poll server_running / peer_running, what     *)
(* each one blocks in and for how long.                                      *)

\* socket.accept() on a socket with no timeout set
Blocking == "blocking"

\* how long one wait of each loop lasts at most: server.py main calls
\* server.accept() with no settimeout; handle_client calls
\* receive_message(client_socket); heartbeat_monitor sleeps;
\* peer2peer.py listener_thread_func sets settimeout(1.0) before accept;
\* handle_incoming_peer calls receive_message(timeout=HEARTBEAT_INTERVAL);
\* receive_from_peer calls receive_message(timeout=1.0); cleanup_thread sleeps
WaitLimit ==
    [server |-> [accept |-> Blocking, handler |-> "MESSAGE_TIMEOUT",
                 receiver |-> Blocking, monitor |-> "HEARTBEAT_INTERVAL"],
     peer |-> [accept |-> "1.0", handler |-> "HEARTBEAT_INTERVAL",
               receiver |-> "1.0", monitor |-> "HEARTBEAT_INTERVAL"]]

\* the while test of a loop: the flag is read; the loop goes into its wait or
\* ends
LoopCheck(t) ==
    /\ prog \in {"server", "peer"}
    /\ loop[t] = "check"
    /\ loop' = [loop EXCEPT ![t] = IF node_running THEN "wait" ELSE "done"]
    /\ io' = <<>>
    /\ ev' = Ev("loop_check", 0, <<>>)
    /\ UNCHANGED <<prog, transportVars, now, closed, rejected, mainexit, listener,
                   node_running, sendVars, serverVars, peerVars>>

\* the wait of a loop ends with nothing received: accept raises socket.timeout
\* and the loop continues; receive_message returns None and the loop breaks;
\* time.sleep returns, the scan runs and the loop continues
WaitTimeout(t) ==
    /\ prog \in {"server", "peer"}
    /\ loop[t] = "wait"
    /\ WaitLimit[prog][t] # Blocking
    /\ loop' = [loop EXCEPT ![t] = IF t \in {"handler", "receiver"}
                                   THEN "done" ELSE "check"]
    /\ io' = <<>>
    /\ ev' = Ev("wait_timeout", 0, <<>>)
    /\ UNCHANGED <<prog, transportVars, now, closed, rejected, mainexit, listener,
                   node_running, sendVars, serverVars, peerVars>>

\* the wait of a loop ends with something received: accept returns a
\* connection and a handler thread is started; receive_message returns a frame
\* and the loop goes on
WaitArrival(t) ==
    /\ prog \in {"server", "peer"}
    /\ t \in {"accept", "handler", "receiver"}
    /\ loop[t] = "wait"
    /\ loop' = [u \in Loops |->
                   IF u = t THEN "check"
                   ELSE IF t = "accept" /\ u = "handler" /\ loop[u] = "none"
                   THEN "check" ELSE loop[u]]
    /\ io' = <<>>
    /\ ev' = Ev("wait_arrival", 0, <<>>)
    /\ UNCHANGED <<prog, transportVars, now, closed, rejected, mainexit, listener,
                   node_running, sendVars, serverVars, peerVars>>

\* peer2peer.py, /connect at the prompt: connect_to_peer starts
\* receive_from_peer
ConnectReceiver ==
    /\ prog = "peer"
    /\ node_running
    /\ loop["receiver"] = "none"
    /\ loop' = [loop EXCEPT !["receiver"] = "check"]
    /\ io' = <<>>
    /\ ev' = Ev("connected", 0, <<>>)
    /\ UNCHANGED <<prog, transportVars, now, closed, rejected, mainexit, listener,
                   node_running, sendVars, serverVars, peerVars>>

\* server.py, Ctrl-C: KeyboardInterrupt is raised in main, which is in its
\* accept loop; the loop is left and the finally block clears server_running.
\* peer2peer.py, /quit at the prompt: main's finally block clears peer_running.
ClearRunning ==
    /\ prog \in {"server", "peer"}
    /\ node_running
    /\ node_running' = FALSE
    /\ loop' = IF prog = "server" THEN [loop EXCEPT !["accept"] = "done"] ELSE loop
    /\ io' = <<>>
    /\ ev' = Ev("clear", 0, <<>>)
    /\ UNCHANGED <<prog, transportVars, now, closed, rejected, mainexit, listener,
                   sendVars, serverVars, peerVars>>

CancelNext ==
    \/ \E t \in Loops : LoopCheck(t)
    \/ \E t \in Loops : WaitTimeout(t)
    \/ \E t \in Loops : WaitArrival(t)
    \/ ConnectReceiver
    \/ ClearRunning

\* every thread is scheduled again and again, and every timer runs out
CancelFairness ==
    \A t \in Loops : WF_vars(LoopCheck(t)) /\ WF_vars(WaitTimeout(t))

SpecCancel == Init /\ [][CancelNext]_vars /\ CancelFairness

-----------------------------------------------------------------------------
(* The handshake on its own: each connection sends one of a larger set of    *)
(* first frames, or none, and is inserted or turned away.                    *)

HandshakeInputs ==
    { None, Some(Input.hs_bob), Some(Input.hs_Bob), Some(Input.hs_empty),
      Some(Input.hs_setup_empty), Some(Input.hs_badport), Some(Input.hs_noport),
      Some(Input.hs_other), Some(Input.hs_long) }

HandshakeNext ==
    \/ \E c \in Conns : \E msg \in HandshakeInputs : Accept(c, msg)
    \/ \E c \in Conns : Insert(c)
    \/ \E c \in Conns : \E msg \in HandshakeInputs : PeerAccept(c, msg)
    \/ \E c \in Conns : \E failing \in SUBSET (Flaky \cap {c}) : PeerInsert(c, failing)

SpecHandshake == Init /\ [][HandshakeNext]_vars

-----------------------------------------------------------------------------
(* The dispatch of one frame, for every frame of a larger set, from each of  *)
(* the registries that the connections can have built: the handlers of the   *)
(* registered connections are in their loops and one of them handles one     *)
(* frame.                                                                    *)

\* the sequences without repetition of at most n members of S
RECURSIVE Orders(_, _)
Orders(S, n) ==
    IF n = 0 THEN {<<>>}
    ELSE Orders(S, n - 1)
         \cup {Append(o, c) : o \in Orders(S, n - 1), c \in S}

Distinct(o) == \A i, j \in DOMAIN o : i # j => o[i] # o[j]

\* the clients list after the connections of o were inserted in that order
RECURSIVE ClientsOf(_)
ClientsOf(o) ==
    IF o = <<>> THEN <<>>
    ELSE LET cl == ClientsOf(SubSeq(o, 1, Len(o) - 1))
             c == o[Len(o)]
             hs == ParseHandshake(CHOOSE h \in Handshakes(c) : TRUE, Address(c))
         IN Append(cl, NewRecord(c, hs, 0, cl))

\* connected_peers after the inbound connections of o were inserted in that
\* order
RECURSIVE PeersOf(_)
PeersOf(o) ==
    IF o = <<>> THEN <<>>
    ELSE LET c == o[Len(o)]
         IN PeerPut(PeersOf(SubSeq(o, 1, Len(o) - 1)), Address(c), c,
                    ParsePeerHandshake(CHOOSE h \in Handshakes(c) : TRUE, Address(c)),
                    0)

InitDispatch ==
    /\ TransportInit
    /\ SharedInit
    /\ mpc = "sleep"
    /\ wake = HEARTBEAT_INTERVAL
    /\ disconnected = <<>>
    /\ active = {}
    /\ rateLog = <<>>
    /\ p2p_port = [c \in Conns |-> 0]
    /\ mainpc = "prompt"
    /\ peers_copy = <<>>
    /\ sent_count = 0
    /\ disconnected_peers = <<>>
    /\ cwake = P2P_HEARTBEAT_INTERVAL
    /\ \/ /\ prog = "server"
          /\ \E o \in {q \in Orders(Conns, MAX_CLIENTS) : Distinct(q)} :
                /\ clients = ClientsOf(o)
                /\ hpc = [c \in Conns |-> IF c \in Range(o) THEN "loop" ELSE "new"]
                /\ username = [c \in Conns |->
                                  IF c \in Range(o)
                                  THEN ClientsOf(o)[IndexOf(ClientsOf(o), c)].uname
                                  ELSE <<>>]
          /\ connected_peers = <<>>
          /\ ppc = [c \in Conns |-> "new"]
          /\ peer_username = [c \in Conns |-> <<>>]
       \/ /\ prog = "peer"
          /\ \E o \in {q \in Orders(Conns, MAX_PEERS) : Distinct(q)} :
                /\ connected_peers = PeersOf(o)
                /\ ppc = [c \in Conns |-> IF c \in Range(o) THEN "loop" ELSE "new"]
                /\ peer_username = [c \in Conns |->
                                       IF c \in Range(o)
                                       THEN PeersOf(o)[KeyIndex(PeersOf(o), Address(c))].uname
                                       ELSE <<>>]
          /\ clients = <<>>
          /\ hpc = [c \in Conns |-> "new"]
          /\ username = [c \in Conns |-> <<>>]

\* one frame is dispatched from each registry
DispatchNext ==
    \/ \E c \in Conns : \E message \in DispatchMessages :
           \E failing \in SUBSET (Flaky \cap (Sockets(clients) \cup {c})) :
               /\ prog = "server"
               /\ ev.op = "init"
               /\ HandleFrame(c, message, failing)
    \/ \E c \in Conns : \E message \in PeerDispatchMessages :
           \E failing \in SUBSET (Flaky \cap {c}) :
               /\ ev.op = "init"
               /\ PeerHandleFrame(c, message, failing)
    \/ \E c \in Conns : ev.op = "init" /\ LoopEnd(c, "empty")

SpecDispatch == InitDispatch /\ [][DispatchNext]_vars

-----------------------------------------------------------------------------
(* Claims about the framed transport (checked under SpecTransport) *)

\* every payload sent so far is within the receiver's limit
AllWithinLimit ==
    \A i \in DOMAIN sentLog : Len(Utf8Encode(sentLog[i])) <= MaxMessageLength

\* C6: round trip.  On a stream that carries only send_message frames of at
\* most MaxMessageLength bytes, the k-th call of receive_message that returns a
\* payload returns exactly the k-th payload sent (the empty one included), no
\* call rejects a frame or fails to decode it, and end of stream is only seen
\* once every payload sent has been returned.
C6_RoundTrip ==
    (prog = "transport" /\ rpc = "ret" /\ ~rawWritten /\ ~lost /\ AllWithinLimit) =>
        /\ cause \in {"frame", "timeout", "eof", "error"}
        /\ result.some => (nrecv <= Len(sentLog) /\ result.val = sentLog[nrecv])
        /\ cause = "eof" => nrecv = Len(sentLog)

\* an at-limit payload and then the empty payload have both come back
C6_Witness ==
    /\ prog = "transport" /\ rpc = "ret" /\ cause = "frame"
    /\ sentLog = <<AtLimit, <<>>>>
    /\ nrecv = 2 /\ result = Some(<<>>)

\* the bytes of the stream from where the current call started
CallBytes == SubSeq(stream, callPos + 1, Len(stream))

\* what receive_message returns when the frame at the head of b arrives in one
\* piece, and how many bytes of b it takes
ReceiveWhole(b) ==
    IF LengthExceeds(SubSeq(b, 1, 4), MaxMessageLength) THEN None
    ELSE Utf8Decode(SubSeq(b, 5, 4 + UnpackLen(SubSeq(b, 1, 4))))

WholeConsumed(b) ==
    IF LengthExceeds(SubSeq(b, 1, 4), MaxMessageLength) THEN 4
    ELSE 4 + UnpackLen(SubSeq(b, 1, 4))

\* C7: fragmentation.  However the bytes of a frame are split into deliveries,
\* a call that is not cut short by a timeout, end of stream or a closed socket
\* returns what it returns when the frame arrives in one piece, has then taken
\* exactly the frame's bytes from the stream, and never takes more than those
\* while it runs.
C7_Fragmentation ==
    prog = "transport" =>
        /\ (rpc = "ret" /\ cause \in {"frame", "decode", "oversize"}) =>
               /\ result = ReceiveWhole(CallBytes)
               /\ pos - callPos = WholeConsumed(CallBytes)
        /\ (rpc \in {"len", "body"} /\ Len(CallBytes) >= 4) =>
               pos - callPos <= WholeConsumed(CallBytes)

\* a frame of 8 bytes (prefix, a 3-byte and a 1-byte code point) has been
\* read in 8 recv calls, one byte each, the prefix split too
C7_Witness ==
    /\ prog = "transport" /\ rpc = "ret" /\ cause = "frame"
    /\ result = Some(<<8364, 65>>)
    /\ nchunks = 8

\* C8: oversize rejection.  A call whose prefix claims more than
\* MaxMessageLength bytes returns None having read the 4 prefix bytes only, and
\* the loop that made the call makes no further call on that connection.
C8_OversizeDropsConnection ==
    prog = "transport" =>
        /\ (rpc = "ret" /\ cause = "oversize") =>
               (result = None /\ pos - callPos = 4)
        /\ rpc \in {"len", "body"} => cause # "oversize"

-----------------------------------------------------------------------------
(* Claims about the registry, the rate limiter, the broadcast and the        *)
(* heartbeat monitor                                                         *)

\* the send_message calls of the last step that went to socket s
SendsTo(s) == SelectSeq(io, LAMBDA e : e.to = s)

\* the sockets of the entries of connected_peers
PeerSockets(cp) == {cp[i].sock : i \in DOMAIN cp}

\* "ERROR"
ErrorWord == <<69, 82, 82, 79, 82>>

\* C1: in every reachable state the registry holds at most N_max records:
\* MAX_CLIENTS in the chat server; MAX_PEERS in the hybrid peer, inbound and
\* outbound connections counted together.
C1_RegistryBounded ==
    /\ Len(clients) <= MAX_CLIENTS
    /\ Len(connected_peers) <= MAX_PEERS

\* the step in which the handler of c leaves the capacity check of the server
ServerChecksCapacity(c) == prog = "server" /\ hpc[c] = "insert" /\ hpc'[c] # "insert"

\* the step in which the handler of c leaves the capacity check of the peer
PeerChecksCapacity(c) == prog = "peer" /\ ppc[c] = "insert" /\ ppc'[c] # "insert"

\* the step sends c one ERROR frame, closes its socket and leaves it rejected
RejectedNow(c) ==
    /\ Len(io') = 1
    /\ io'[1].to = c
    /\ StartsWith(io'[1].frame, ErrorWord)
    /\ c \in closed'
    /\ c \in rejected'

\* C2: a connection whose handshake is over while the registry holds N_max
\* records is sent one ERROR frame and closed, and no record is inserted for
\* it; below N_max it is inserted; a connection is rejected only at the
\* capacity check, which its handler reaches after it has read the handshake
\* frame; a rejected connection never has a record, and every /list reply
\* names the records of the registry and nothing else.
C2_CapacityRejection ==
    [][ /\ \A c \in Conns :
            /\ ServerChecksCapacity(c) /\ Len(clients) >= MAX_CLIENTS
                 => RejectedNow(c) /\ clients' = clients
            /\ ServerChecksCapacity(c) /\ Len(clients) < MAX_CLIENTS
                 => c \notin rejected' /\ c \in Sockets(clients')
            /\ PeerChecksCapacity(c) /\ Len(connected_peers) >= MAX_PEERS
                 => RejectedNow(c) /\ connected_peers' = connected_peers
            /\ PeerChecksCapacity(c) /\ Len(connected_peers) < MAX_PEERS
                 => c \notin rejected' /\ c \in PeerSockets(connected_peers')
        /\ \A c \in rejected' \ rejected :
            /\ ServerChecksCapacity(c) \/ PeerChecksCapacity(c)
            /\ prog = "server" => username[c] # <<>>
            /\ prog = "peer" => peer_username[c] # <<>>
        /\ rejected' \cap (Sockets(clients') \cup PeerSockets(connected_peers')) = {}
        /\ prog = "server" /\ ev'.op = "/list"
             => /\ Len(io') = 1
                /\ io'[1].to = ev'.c
                /\ io'[1].frame = ServerText.UserList
                                   \o Join(<<44, 32>>,
                                           [i \in DOMAIN clients' |-> clients'[i].uname])
      ]_vars

\* a /list reply is sent after a connection was rejected
C2_Witness == prog = "server" /\ ev.op = "/list" /\ rejected # {}

\* the k-th run of RATE_LIMIT_MESSAGES + 1 consecutive chat messages of the log
Run(k) == SubSeq(rateLog, k, k + RATE_LIMIT_MESSAGES)

Runs == 1..(Len(rateLog) - RATE_LIMIT_MESSAGES)

\* the entries of a run that were admitted
Admitted(run) == {j \in DOMAIN run : run[j].admitted}

\* the connection sent no chat message in the window length before the run
AfterSilence(k) ==
    rateLog[k].prev = -1 \/ rateLog[k].t - rateLog[k].prev >= RATE_LIMIT_WINDOW

\* a burst of 10 that starts after the window has elapsed is admitted in full
FreshBurstAdmitted ==
    \A k \in DOMAIN rateLog :
        k > 1 /\ rateLog[k].t - rateLog[k - 1].win >= RATE_LIMIT_WINDOW
          => \A j \in k..Min(k + RATE_LIMIT_MESSAGES - 1, Len(rateLog)) :
                rateLog[j].admitted

\* C3 as stated: of 11 chat messages of one connection within a span shorter
\* than the window, wherever the span lies after the insertion and after
\* earlier traffic, exactly 10 are admitted and 1 is rejected; and a burst of
\* 10 that starts after the window has elapsed is admitted in full.
C3_AnySpan ==
    /\ \A k \in Runs :
          AfterSilence(k) /\ Run(k)[RATE_LIMIT_MESSAGES + 1].t - Run(k)[1].t < RATE_LIMIT_WINDOW
            => Cardinality(Admitted(Run(k))) = RATE_LIMIT_MESSAGES
    /\ FreshBurstAdmitted

\* C3, amended: for a connection that has its record, of 11 consecutive chat
\* messages of which the first is the first one counted in its window and the
\* last arrives less than the window length after that window's start, the
\* first 10 are admitted and the 11th is rejected; and a burst of 10 that
\* starts after the window has elapsed is admitted in full.
C3_FixedWindow ==
    /\ \A k \in Runs :
          /\ Run(k)[1].admitted /\ Run(k)[1].n = 1
          /\ Run(k)[RATE_LIMIT_MESSAGES + 1].t - Run(k)[1].win < RATE_LIMIT_WINDOW
          => Admitted(Run(k)) = 1..RATE_LIMIT_MESSAGES
    /\ FreshBurstAdmitted

\* a run of 11 messages that starts when the window has elapsed and ends
\* within the new window
C3_Witness ==
    /\ Len(rateLog) = RATE_LIMIT_MESSAGES + 1
    /\ rateLog[1].n = 1
    /\ rateLog[1].prev # -1
    /\ rateLog[1].win = rateLog[1].t
    /\ rateLog[Len(rateLog)].t - rateLog[1].win < RATE_LIMIT_WINDOW
    /\ ~rateLog[Len(rateLog)].admitted

\* the sockets of the sends of the last step that failed / went through
FailedSends(sends) == {sends[k].to : k \in {j \in DOMAIN sends : ~sends[j].ok}}

SucceededSends(sends) == {sends[k].to : k \in {j \in DOMAIN sends : sends[j].ok}}

\* the sends of the step after the greeting, which Greet sends first
BroadcastIo(sends, op) == IF op = "greet" THEN Tail(sends) ELSE sends

\* a pass of broadcast_message in the step: one send to every member but the
\* excluded one, in order, whatever failed before; the number of successes
\* returned; the members whose send failed without a record afterwards, the
\* others with theirs
ServerBroadcastStep ==
    LET sends == BroadcastIo(io', ev'.op)
        members == SelectSeq(clients, LAMBDA r : r.sock # ev'.exclude)
    IN /\ Len(sends) = Len(members)
       /\ \A k \in DOMAIN sends : sends[k].to = members[k].sock
       /\ \A k, j \in DOMAIN sends : sends[k].frame = sends[j].frame
       /\ ev'.ret = Cardinality(SucceededSends(sends))
       /\ FailedSends(sends) \cap Sockets(clients') = {}
       /\ \A r \in Range(clients) :
             r.sock \notin FailedSends(sends) => r.sock \in Sockets(clients')

\* the sends of broadcast_to_all_peers in the step: one to every entry, in
\* order, whatever failed before
PeerBroadcastSendStep ==
    /\ Len(io') = Len(connected_peers)
    /\ \A k \in DOMAIN io' : io'[k].to = connected_peers[k].sock
                              /\ io'[k].frame = ev'.msg
    /\ sent_count' = Cardinality(SucceededSends(io'))
    /\ Range(disconnected_peers')
         = {connected_peers[k].peer_address :
              k \in {j \in DOMAIN io' : ~io'[j].ok}}

\* the member of the snapshot's send failed
SendFailed(e) == e.peer_address \in Range(disconnected_peers)

\* broadcast_to_all_peers returns in the step: the number of successes is
\* returned, the members whose send failed have no record, and the call has
\* removed no other record
PeerBroadcastReturnStep ==
    /\ ev'.ret = Cardinality({k \in DOMAIN peers_copy : ~SendFailed(peers_copy[k])})
    /\ \A k \in DOMAIN peers_copy :
          SendFailed(peers_copy[k])
            => ~HasKey(connected_peers', peers_copy[k].peer_address)
    /\ \A e \in Range(connected_peers) :
          ~SendFailed(e) => e \in Range(connected_peers')

\* every member of the snapshot whose send went through has a record when
\* broadcast_to_all_peers returns
PeerSucceededPresent ==
    \A k \in DOMAIN peers_copy :
        ~SendFailed(peers_copy[k])
          => HasKey(connected_peers', peers_copy[k].peer_address)

IsServerBroadcast == prog = "server" /\ ev'.bcast

IsPeerBroadcastSend == prog = "peer" /\ ev'.op = "broadcast_send"

IsPeerBroadcastReturn == prog = "peer" /\ ev'.op = "broadcast_return"

\* C4 as stated: a broadcast sends to every member that is not excluded,
\* whatever failed before in the pass, returns the number of sends that went
\* through, and when it returns no member whose send failed has a record and
\* every member whose send went through has one.
C4_BroadcastAsStated ==
    [][ /\ IsServerBroadcast => ServerBroadcastStep
        /\ IsPeerBroadcastSend => PeerBroadcastSendStep
        /\ IsPeerBroadcastReturn => PeerBroadcastReturnStep /\ PeerSucceededPresent
      ]_vars

\* C4, amended: a broadcast sends to every member that is not excluded,
\* whatever failed before in the pass, returns the number of sends that went
\* through, and when it returns no member whose send failed has a record; the
\* broadcast removes no member whose send went through: in the chat server,
\* whose pass holds the lock throughout, every such member still has its
\* record at the return; in the hybrid peer, whose sends are made without the
\* lock, every such member that another thread has not removed meanwhile has.
C4_BroadcastPartialFailure ==
    [][ /\ IsServerBroadcast => ServerBroadcastStep
        /\ IsPeerBroadcastSend => PeerBroadcastSendStep
        /\ IsPeerBroadcastReturn => PeerBroadcastReturnStep
      ]_vars

\* a pass of the server in which one send failed and another went through
C4_Witness ==
    /\ prog = "server"
    /\ ev.bcast
    /\ FailedSends(BroadcastIo(io, ev.op)) # {}
    /\ SucceededSends(BroadcastIo(io, ev.op)) # {}
    /\ ev.ret = Cardinality(SucceededSends(BroadcastIo(io, ev.op)))

\* C5: every connection that the monitor's scan found with a last_heartbeat
\* older than 2 x HEARTBEAT_TIMEOUT, whose handler has handled no frame since
\* and is still waiting for one at the removal pass, has no record and a
\* closed socket when the removal pass ends, and the pass has sent it no
\* frame.
C5_HeartbeatEviction ==
    [][ prog = "server" /\ mpc = "remove" /\ mpc' = "sleep"
          => \A k \in DOMAIN disconnected :
                disconnected[k].sock \notin active /\ hpc[disconnected[k].sock] = "loop"
                  => /\ disconnected[k].sock \notin Sockets(clients')
                     /\ disconnected[k].sock \in closed'
                     /\ \A j \in DOMAIN io' : io'[j].to # disconnected[k].sock
      ]_vars

\* "[COLOR:"
ColorTag == <<91, 67, 79, 76, 79, 82, 58>>

\* C9: when the handler of a registered connection A broadcasts an admitted
\* chat message, A and every other member B whose send went through get one
\* frame each, the same one: [COLOR:<A's colour code>][HH:MM] <A's name>: <text>.
C9_SelfEcho ==
    (prog = "server" /\ ev.op = "chat" /\ ev.c \in Sockets(clients))
      => LET A == clients[IndexOf(clients, ev.c)]
             frame == ColorTag \o A.color \o <<93, 91>> \o HHMM(now) \o <<93, 32>>
                      \o A.uname \o <<58, 32>> \o ev.msg
         IN \A B \in Range(clients) :
               /\ Len(SendsTo(A.sock)) = 1
               /\ Len(SendsTo(B.sock)) = 1
               /\ SendsTo(A.sock)[1].ok /\ SendsTo(B.sock)[1].ok
               /\ SendsTo(A.sock)[1].frame = SendsTo(B.sock)[1].frame
               /\ SendsTo(B.sock)[1].frame = frame

\* a chat message of one of two registered connections reaches both
C9_Witness ==
    /\ prog = "server" /\ ev.op = "chat"
    /\ ev.c \in Sockets(clients)
    /\ Len(clients) >= 2
    /\ Len(io) = Len(clients)

\* "PEER_INFO:"
PeerInfoWord == <<80, 69, 69, 82, 95, 73, 78, 70, 79, 58>>

\* the name typed after /getpeer
GetpeerTarget(message) == Split(message)[2]

\* C10: /getpeer <name> is answered with exactly one frame, sent to the
\* requester: PEER_INFO:<name>:<ip>:<p2p-port> of a record whose name equals
\* <name> ignoring case, built from the record's remote IP and declared port,
\* if there is such a record; otherwise an error that names <name> and is no
\* PEER_INFO frame.
C10_Getpeer ==
    (prog = "server" /\ ev.op = "/getpeer")
      => /\ Len(io) = 1
         /\ io[1].to = ev.c
         /\ LET name == GetpeerTarget(ev.msg)
                matches == {r \in Range(clients) : Lower(r.uname) = Lower(name)}
            IN IF matches # {}
               THEN \E r \in matches :
                       io[1].frame = PeerInfoWord \o r.uname \o <<58>> \o r.addr[1]
                                     \o <<58>> \o IntToStr(r.p2p_port)
               ELSE /\ ~StartsWith(io[1].frame, PeerInfoWord)
                    /\ StartsWith(io[1].frame, ErrorWord)
                    /\ \E k \in 1..Len(io[1].frame) :
                          SubSeq(io[1].frame, k, k + Len(name) - 1) = name

\* /getpeer finds a record whose declared port is not the default one
C10_Witness ==
    /\ prog = "server" /\ ev.op = "/getpeer"
    /\ Len(io) = 1
    /\ StartsWith(io[1].frame, PeerInfoWord)
    /\ \E r \in Range(clients) :
          /\ Lower(r.uname) = Lower(GetpeerTarget(ev.msg))
          /\ r.uname # GetpeerTarget(ev.msg)
          /\ r.p2p_port # 8081

\* C11: a read that times out does not end the serving of a connection: after
\* the step in which receive_message gave up waiting, the thread is still in
\* its receive loop, the stream is open and the record is where it was.
C11_TimeoutNotFatal ==
    [][ev'.op = "timeout"
         => /\ ev'.c \notin closed'
            /\ prog = "server" => /\ hpc'[ev'.c] = "loop"
                                  /\ clients' = clients
            /\ prog = "peer" => /\ ppc'[ev'.c] \in {"loop", "receiver"}
                                /\ connected_peers' = connected_peers]_vars

\* C12: once the thread that serves a connection has finished (the handler
\* of the server, the inbound handler or the receiver of the peer, whatever
\* ended its loop), the connection has no record in the registry and its
\* socket has been closed.
C12_CleanupOnExit ==
    \A c \in Conns :
       /\ (prog = "server" /\ hpc[c] = "done")
            => c \in closed /\ c \notin Sockets(clients)
       /\ (prog = "peer" /\ ppc[c] = "done")
            => c \in closed /\ c \notin PeerSockets(connected_peers)

\* the records of the connection in the registry of the server
RecordsOf(c) == {i \in DOMAIN clients : clients[i].sock = c}

\* the entries of the connection in the registry of the peer
EntriesOf(c) == {i \in DOMAIN connected_peers : connected_peers[i].sock = c}

\* C13: in every state a socket that has been closed has no record in the
\* registry, and a socket that is open and whose thread is past the insertion
\* and still serving it has exactly one record.
C13_RegistryLifecycle ==
    \A c \in Conns :
       /\ prog = "server"
            => /\ c \in closed => RecordsOf(c) = {}
               /\ (c \notin closed /\ hpc[c] \in {"greet", "loop"})
                    => Cardinality(RecordsOf(c)) = 1
       /\ prog = "peer"
            => /\ c \in closed => EntriesOf(c) = {}
               /\ (c \notin closed /\ ppc[c] \in {"loop", "receiver"})
                    => Cardinality(EntriesOf(c)) = 1

\* C14: no send_message call is made by a thread that holds the lock of the
\* registry.
C14_NoSendUnderLock == \A k \in DOMAIN io : ~io[k].locked

\* C15: when main shuts the program down, every connection registered at
\* that moment is sent a farewell frame and its socket is closed, the registry
\* is left empty, the listening socket is closed and the sequence runs to its
\* end.
C15_ShutdownCompletes ==
    [][ev'.op = "shutdown"
         => /\ mainexit' = "returned"
            /\ listener' = "closed"
            /\ prog = "server"
                 => /\ clients' = <<>>
                    /\ \A s \in Sockets(clients) :
                          /\ s \in closed'
                          /\ \E k \in DOMAIN io' : io'[k].to = s /\ io'[k].kind = "farewell"
            /\ prog = "peer"
                 => /\ connected_peers' = <<>>
                    /\ \A s \in PeerSockets(connected_peers) :
                          /\ s \in closed'
                          /\ \E k \in DOMAIN io' : io'[k].to = s /\ io'[k].kind = "farewell"]_vars

\* C16: when the rate limiter rejects a chat message, the only frame sent is
\* one ERROR frame to the sender, no record of the registry changes, no socket
\* is closed, and the sender's handler stays in its loop with its record in
\* the registry.
C16_RejectionKeepsConnection ==
    [][ev'.op = "limited"
         => /\ Len(io') = 1
            /\ io'[1].to = ev'.c
            /\ StartsWith(io'[1].frame, ErrorWord)
            /\ clients' = clients
            /\ closed' = closed
            /\ ev'.c \in Sockets(clients') \ closed'
            /\ hpc'[ev'.c] = "loop"]_vars

\* a chat message of connection 1 is rejected while connection 2 is
\* registered too, and the ERROR frame reaches connection 1
C16_Witness ==
    /\ ev.op = "limited" /\ ev.c = 1
    /\ IsChat(ev.msg)
    /\ Sockets(clients) = {1, 2}
    /\ Len(io) = 1 /\ io[1].ok
    /\ hpc[1] = "loop"

\* C17: a frame that begins with '/' and falls through every command the
\* handler knows (the command is unknown to it, or lacks its arguments) is
\* answered with exactly one ERROR frame to its sender; it is not echoed, and
\* the handler stays in its loop with the socket open.
C17_UnknownCommandError ==
    (ev.op \in {"unknown", "echo"} /\ StartsWith(ev.msg, <<47>>))
      => /\ Len(io) = 1
         /\ io[1].to = ev.c
         /\ StartsWith(io[1].frame, ErrorWord)
         /\ ev.c \notin closed
         /\ prog = "server" => hpc[ev.c] = "loop"
         /\ prog = "peer" => ppc[ev.c] = "loop"

\* the byte sequence is a sequence of whole frames, each a prefix followed by
\* as many bytes as it announces, and each payload one of those in payloads
RECURSIVE WholeFrames(_, _)
WholeFrames(b, payloads) ==
    \/ b = <<>>
    \/ /\ Len(b) >= 4
       /\ ~LengthExceeds(SubSeq(b, 1, 4), Len(b) - 4)
       /\ LET n == UnpackLen(SubSeq(b, 1, 4))
          IN /\ SubSeq(b, 5, 4 + n) \in payloads
             /\ WholeFrames(SubSeq(b, 5 + n, Len(b)), payloads)

\* C18: whenever no send_message call is in progress on the socket, the bytes
\* written to it are a sequence of whole frames: each length prefix is
\* followed at once by its own payload, whatever the interleaving of the
\* senders.
C18_WholeFrames ==
    (prog = "send" /\ \A t \in Senders : sender[t].pc = "idle")
      => WholeFrames(wire, {Utf8Encode(SenderMessage(t)) : t \in Senders})

\* "INFO"
InfoWord == <<73, 78, 70, 79>>

\* the words of a /pm frame: the name after the command, and the text after
\* the name
PmName(message) == Split(message)[2]

PmText(message) ==
    LET words == Split(message) IN Join(<<32>>, SubSeq(words, 3, Len(words)))

\* the handler has handled a frame /pm <name> <text>
PmHandled ==
    /\ prog = "server" /\ ev.op # "init" /\ ev.c \in Conns
    /\ Len(Split(ev.msg)) >= 3
    /\ Split(ev.msg)[1] = ServerText.pm

\* C19: /pm <name> <text> sends [PM od <sender>] <text> to one connection
\* whose name equals <name> ignoring case and a confirmation to the sender, and
\* nothing to anybody else; when no name matches, the sender alone gets an
\* error that names <name>.
C19_PrivateMessage ==
    PmHandled
      => LET name == PmName(ev.msg)
             matches == {r \in Range(clients) : Lower(r.uname) = Lower(name)}
         IN IF matches # {}
            THEN /\ Len(io) = 2
                 /\ io[1].to \in {r.sock : r \in matches}
                 /\ io[1].frame = ServerText.PmFrom \o username[ev.c] \o <<93, 32>>
                                  \o PmText(ev.msg)
                 /\ io[2].to = ev.c
                 /\ StartsWith(io[2].frame, InfoWord)
            ELSE /\ Len(io) = 1
                 /\ io[1].to = ev.c
                 /\ StartsWith(io[1].frame, ErrorWord)
                 /\ \E k \in 1..Len(io[1].frame) :
                       SubSeq(io[1].frame, k, k + Len(name) - 1) = name

\* C20: a handler that reads the command /ping sends one frame, to the
\* sender: PONG.
C20_PingPong ==
    (ev.op # "init" /\ ev.c \in Conns /\ Split(ev.msg) # <<>>
       /\ Split(ev.msg)[1] = PeerText.ping)
      => /\ Len(io) = 1
         /\ io[1].to = ev.c
         /\ io[1].frame = PeerText.PONG

\* "opustil chat", the end of the departure announcement
LeftWord == <<111, 112, 117, 115, 116, 105, 108, 32, 99, 104, 97, 116>>

\* the sequence ends with the suffix
EndsWith(s, suffix) ==
    Len(s) >= Len(suffix) /\ SubSeq(s, Len(s) - Len(suffix) + 1, Len(s)) = suffix

\* C21: on /quit the handler sends the acknowledgment to the sender, alone,
\* and leaves its loop for good: it handles no later frame, its record is
\* removed, then the members that remain, and not the connection that quit,
\* are sent the departure announcement, and its socket is closed.
C21_QuitTerminates ==
    [][prog = "server"
         => /\ ev'.op = "/quit"
                 => /\ Len(io') = 1
                    /\ io'[1].to = ev'.c
                    /\ io'[1].frame = ServerText.Bye
                    /\ hpc'[ev'.c] = "cleanup"
            /\ \A c \in Conns :
                  /\ hpc[c] = "cleanup"
                       => \/ hpc'[c] = "cleanup"
                          \/ hpc'[c] = "finish" /\ c \notin Sockets(clients')
                  /\ hpc[c] = "finish"
                       => \/ hpc'[c] = "finish"
                          \/ /\ hpc'[c] = "done"
                             /\ c \in closed'
                             /\ c \notin Sockets(clients')
                             /\ {io'[k].to : k \in DOMAIN io'} = Sockets(clients)
                             /\ \A k \in DOMAIN io' :
                                   /\ io'[k].to # c
                                   /\ EndsWith(io'[k].frame, username[c] \o <<32>> \o LeftWord)
                  /\ hpc[c] = "done" => hpc'[c] = "done"]_vars

\* the acknowledgment of a /quit went through while another member is
\* registered
C21_Witness ==
    /\ prog = "server" /\ ev.op = "/quit"
    /\ hpc[ev.c] = "cleanup"
    /\ Len(io) = 1 /\ io[1].ok
    /\ Len(clients) = 2

\* the name a first frame declares: what follows "USERNAME:", or the second
\* field of "SETUP:<name>:<port>", without the white space around it; the
\* peer knows the first form only
DeclaredName(frame) ==
    IF StartsWith(frame, ServerText.USERNAME)
    THEN Strip(SubSeq(frame, Len(ServerText.USERNAME) + 1, Len(frame)))
    ELSE IF prog = "server" /\ StartsWith(frame, ServerText.SETUP)
              /\ Len(SplitOn(frame, 58, -1)) >= 2
         THEN Strip(SplitOn(frame, 58, -1)[2])
         ELSE <<>>

\* the port a SETUP frame declares, 8081 when it declares none that is an
\* integer
DeclaredPort(frame) ==
    LET parts == SplitOn(frame, 58, -1)
    IN IF StartsWith(frame, ServerText.SETUP) /\ Len(parts) >= 3 /\ ParseInt(parts[3]).ok
       THEN ParseInt(parts[3]).val
       ELSE 8081

\* C22: the identity a handler takes from the first frame is the declared
\* name cut to 20 characters when the frame declares one that is not empty,
\* and the default made from the remote port otherwise; the server's secondary
\* port is the declared one or 8081; no record has an empty identity.
C22_HandshakeIdentity ==
    /\ ev.op = "accept"
         => LET name == DeclaredName(ev.msg)
                port == IntToStr(Address(ev.c)[2])
            IN /\ prog = "server"
                    => /\ username[ev.c] = IF name # <<>> THEN Slice(name, 20)
                                           ELSE ServerText.User \o port
                       /\ p2p_port[ev.c] = DeclaredPort(ev.msg)
               /\ prog = "peer"
                    => peer_username[ev.c] = IF name # <<>> THEN Slice(name, 20)
                                             ELSE PeerText.Peer \o port
    /\ \A i \in DOMAIN clients : clients[i].uname # <<>>
    /\ \A i \in DOMAIN connected_peers : connected_peers[i].uname # <<>>

\* C23: when a handler has handled a frame of a registered connection,
\* whatever the frame (PONG, a command, a chat message admitted or rejected,
\* white space), the record's last_heartbeat is the time of receipt.
C23_AnyFrameRefreshes ==
    (prog = "rate" /\ ev.op \notin {"init", "tick"} /\ ev.c \in Sockets(clients))
      => clients[IndexOf(clients, ev.c)].last_hb = now

\* C24: a record that has not expired and whose PING fails during a scan is
\* marked by that scan, for the removal and the close that end it.
C24_FailedPingEvicts ==
    (prog = "server" /\ ev.op = "scan")
      => \A k \in DOMAIN io :
            (io[k].kind = "ping" /\ ~io[k].ok)
              => /\ mpc = "remove"
                 /\ io[k].to \in {disconnected[i].sock : i \in DOMAIN disconnected}

\* the fields of a record that the rate limiter leaves alone
OtherFields == {"sock", "addr", "uname", "p2p_port", "last_hb", "color"}

\* C25: the rate limiter's step for a chat message of a registered connection
\* at time now: when now - window start >= window length the record gets
\* window start now and count 1 and the message is admitted; otherwise, when
\* count < limit, the count grows by one, the window start stays and the
\* message is admitted; otherwise the record stays as it is and the message is
\* rejected.  No other field and no other record changes, and the handler
\* acts on that decision and keeps that record.
C25_RateLimiterStep ==
    [][(ev'.op \in {"chat", "limited"} /\ ev'.c \in Sockets(clients))
         => LET i == IndexOf(clients, ev'.c)
                r == clients[i]
                res == check_rate_limit(clients, ev'.c, now')
                q == res.clients[i]
                kept == clients'[IndexOf(clients', ev'.c)]
            IN /\ IF now' - r.last_msg_time >= RATE_LIMIT_WINDOW
                  THEN q.last_msg_time = now' /\ q.msg_count = 1 /\ res.allowed
                  ELSE IF r.msg_count < RATE_LIMIT_MESSAGES
                       THEN /\ q.last_msg_time = r.last_msg_time
                            /\ q.msg_count = r.msg_count + 1
                            /\ res.allowed
                       ELSE q = r /\ ~res.allowed
               /\ \A f \in OtherFields : q[f] = r[f]
               /\ Len(res.clients) = Len(clients)
               /\ \A j \in DOMAIN clients : j # i => res.clients[j] = clients[j]
               /\ res.allowed <=> ev'.op = "chat"
               /\ ev'.c \in Sockets(clients')
               /\ kept.last_msg_time = q.last_msg_time
               /\ kept.msg_count = q.msg_count]_vars

\* the eleventh message of a window is rejected a tick after the window began
C25_Witness ==
    /\ prog = "rate" /\ ev.op = "limited"
    /\ clients[1].msg_count = RATE_LIMIT_MESSAGES
    /\ now > clients[1].last_msg_time
    /\ now - clients[1].last_msg_time < RATE_LIMIT_WINDOW

\* the steps of the hybrid peer in which a frame arrives on a connection: one
\* round of handle_incoming_peer's loop, or one of receive_from_peer's
PeerFrameOps == {"/quit", "/ping", "/list", "echo", "received"}

\* C26: in the hybrid peer a frame received on a connection refreshes the
\* last_heartbeat of that connection's entry whatever the direction, inbound
\* or outbound, and a cleanup pass that runs right after a frame was received
\* on the outbound connection does not remove its entry or close its socket
C26_TrafficKeepsOutbound ==
    [][/\ (prog = "peer" /\ ev'.op \in PeerFrameOps
             /\ ev'.c \in PeerSockets(connected_peers))
          => \A i \in DOMAIN connected_peers' :
                 connected_peers'[i].sock = ev'.c
                    => connected_peers'[i].last_heartbeat = now'
       /\ (prog = "peer" /\ ev.op = "received" /\ ev'.op = "peer_cleanup"
             /\ ev.c \in PeerSockets(connected_peers))
          => ev.c \in PeerSockets(connected_peers') /\ ev.c \notin closed'
      ]_vars

\* C27: every accept loop that waits for a connection comes back to its test of
\* the running flag although no connection arrives, and once the flag is
\* cleared the accept loop, the connection loops and the monitor loop all end
\* although no connection and no frame arrives any more
C27_CooperativeCancel ==
    /\ (loop["accept"] = "wait") ~> (loop["accept"] # "wait")
    /\ (~node_running) ~> (\A t \in Loops : loop[t] \in {"none", "done"})

\* C28: the receiver loop of an outbound connection ends once the remote side
\* has closed the stream, an I/O error has occurred or shutdown was signalled:
\* the chat client's receive_messages_thread does not call receive_message
\* again after a call that reported the end of the stream or an error or after
\* running was cleared, and the hybrid peer's receive_from_peer, when it ends,
\* leaves no entry under its address
C28_ReceiverTerminates ==
    [][/\ (prog = "transport" /\ rpc = "top"
             /\ (cause \in {"eof", "error"} \/ ~running))
          => rpc' # "len"
       /\ (prog = "peer" /\ ev'.op \in {"receiver_end", "timeout"}
             /\ ppc[ev'.c] = "receiver")
          => ppc'[ev'.c] = "done" /\ ~HasKey(connected_peers', OutAddress)
      ]_vars

\* C29: a read timeout that expires after receive_message has consumed part of
\* a frame loses none of those bytes: on a stream of well-formed frames every
\* call that returns a payload returns the next payload sent, whole, no call
\* takes later bytes for a length prefix and rejects them or fails to decode,
\* and once every byte written has been consumed every payload sent has been
\* returned
C29_TimeoutKeepsSync ==
    (prog = "transport" /\ rpc = "ret" /\ ~rawWritten /\ AllWithinLimit) =>
        /\ cause \in {"frame", "timeout"}
        /\ result.some => (nrecv <= Len(sentLog) /\ result.val = sentLog[nrecv])
        /\ pos = Len(stream) => nrecv = Len(sentLog)

\* C30: every chat message the server broadcasts was admitted by the rate
\* limiter against the record of its sender: the handler that broadcasts a chat
\* message has a record in the registry when it does, and check_rate_limit
\* admitted the message on that record's window and count
C30_AdmittedAgainstRecord ==
    [][(prog = "server" /\ ev'.op = "chat")
         => /\ ev'.c \in Sockets(clients)
            /\ check_rate_limit(clients, ev'.c, now').branch \in {"reset", "count"}
      ]_vars

\* C31: in the hybrid peer the end of a handler or of a receiver thread removes
\* no entry but that of its own socket: every entry that holds another socket,
\* the entry of a new connection to the same address included, is still there
\* afterwards
C31_CleanupOwnRecordOnly ==
    [][(prog = "peer"
          /\ \/ ev'.op = "cleanup"
             \/ ev'.op \in {"receiver_end", "timeout"} /\ ppc[ev'.c] = "receiver")
         => \A i \in DOMAIN connected_peers :
                connected_peers[i].sock # ev'.c
                   => connected_peers[i].sock \in PeerSockets(connected_peers')
      ]_vars

\* C32: with HEARTBEAT_INTERVAL = 300 s and HEARTBEAT_TIMEOUT = 100 s, a
\* registered client that answers every PING with PONG and sends nothing else
\* is never evicted by the monitor: no scan of heartbeat_monitor marks a record
\* for removal, so its removal pass never runs
C32_PongKeepsAlive ==
    [][(prog = "server" /\ ev'.op = "scan")
         => disconnected' = <<>> /\ mpc' = "sleep" /\ clients' = clients
              /\ closed' = closed
      ]_vars

\* a client has answered the PING of the first scan, 300 s after the start
C32_Witness ==
    /\ prog = "server" /\ ev.op = "pong" /\ now = HEARTBEAT_INTERVAL
    /\ ev.c \in Sockets(clients)
    /\ clients[IndexOf(clients, ev.c)].last_hb = now

\* C33: a frame with a zero-length payload from a registered client does not
\* end its connection: after the round of the loop that read it the handler
\* is still in its loop, the registry is as it was and the socket is open
C33_EmptyFrameIgnored ==
    [][(prog = "server" /\ ev'.op = "empty" /\ ev'.c \in Sockets(clients))
         => /\ hpc'[ev'.c] = "loop"
            /\ clients' = clients
            /\ ev'.c \notin closed'
      ]_vars

\* C34: a connection rejected because the registry was full causes no join and
\* no departure announcement: no step of its handler sends a broadcast frame
\* to a registered member
C34_RejectedIsSilent ==
    [][(prog = "server" /\ ev'.c \in rejected' /\ ev'.c # 0)
         => \A k \in DOMAIN io' : io'[k].to = ev'.c
      ]_vars

\* C35: the welcome greeting is the first frame the server sends to a newly
\* inserted client: while a client is inserted and not yet greeted, no step
\* but its own greeting step sends a frame to it, and that step sends the
\* greeting before anything else
C35_GreetingFirst ==
    [][prog = "server"
         => \A k \in DOMAIN io' :
               hpc[io'[k].to] = "greet"
                 => /\ ev'.op = "greet" /\ ev'.c = io'[k].to
                    /\ io'[1].to = ev'.c
                    /\ io'[1].frame = WelcomeFrame(username[ev'.c], Len(clients))
      ]_vars

\* C36: the sender of /pm gets the confirmation "INFO: Soukromá zpráva
\* odeslána ..." only if the send of the private message to the target went
\* through: in a round whose send to the target failed no confirmation reaches
\* the sender
C36_PmConfirmedOnlyIfSent ==
    (prog = "server" /\ ev.op = "/pm"
       /\ \E k \in DOMAIN io : io[k].kind = "pm" /\ ~io[k].ok)
      => \A j \in DOMAIN io :
            ~(io[j].ok /\ StartsWith(io[j].frame, ServerText.PmSent))

-----------------------------------------------------------------------------
(* the rate counter of a record *)

\* C38: in every reachable state every record of clients has
\* 0 <= msg_count <= RATE_LIMIT_MESSAGES; a step never takes the msg_count of
\* a record back to 0, and the step that handles a chat message of a
\* connection that has a record and broadcasts it, the message being
\* admitted, leaves its msg_count at 1 or more, so a count of 0 is only seen
\* before the first admitted chat message; and a step never moves the
\* last_msg_time of a record backwards.
C38_RateCounterInvariant ==
    /\ [](\A i \in 1..Len(clients) :
             clients[i].msg_count \in 0..RATE_LIMIT_MESSAGES)
    /\ [][\A i \in 1..Len(clients) :
             LET j == IndexOf(clients', clients[i].sock)
             IN j # 0 =>
                  /\ clients'[j].last_msg_time >= clients[i].last_msg_time
                  /\ clients'[j].msg_count = 0 => clients[i].msg_count = 0
                  /\ (ev'.op = "chat" /\ ev'.c = clients[i].sock)
                     => clients'[j].msg_count >= 1]_vars

\* the second record has not sent a chat message and still counts 0 while
\* the first record, in a window opened after its insertion, has used the
\* whole allowance and a further chat message of it was just rejected
C38_Witness ==
    /\ prog = "rate"
    /\ Len(clients) = 2
    /\ clients[2].msg_count = 0
    /\ clients[1].msg_count = RATE_LIMIT_MESSAGES
    /\ clients[1].last_msg_time > 0
    /\ ev.op = "limited" /\ ev.c = 1

-----------------------------------------------------------------------------
(* what the heartbeat monitor closes *)

\* C39: the heartbeat monitor closes a socket only in the step that removes
\* the socket's record: its scan closes nothing, and its removal pass closes
\* exactly the sockets whose records it takes out of clients.  A record that
\* was marked by the scan and that its handler rewrote before the removal
\* pass (update_heartbeat or check_rate_limit) stays in clients as the
\* handler left it and its socket is not closed by the pass; the socket of a
\* marked record that its handler already removed is not closed by the pass
\* either.
C39_MonitorClosesWhatItRemoves ==
    [][/\ ev'.op = "scan" => closed' = closed /\ clients' = clients
       /\ ev'.op = "remove" =>
            /\ closed' \ closed \subseteq Sockets(clients) \ Sockets(clients')
            /\ Sockets(clients) \ Sockets(clients') \subseteq closed'
            /\ \A k \in DOMAIN disconnected :
                 LET s == disconnected[k].sock
                     i == IndexOf(clients, s)
                 IN /\ (i # 0 /\ clients[i] # disconnected[k])
                         => /\ clients[i] \in Range(clients')
                            /\ s \in closed' <=> s \in closed
                    /\ i = 0 => (s \in closed' <=> s \in closed)]_vars

\* a removal pass has just ended whose scan had marked two records: the
\* handler of one answered a PING in between, and its record is still in
\* clients with its socket open; the other is gone and its socket closed
\* while its handler still waits for a frame
C39_Witness ==
    /\ prog = "server" /\ ev.op = "remove"
    /\ \E a, b \in Range(ev.msg) :
          /\ a \in Sockets(clients) /\ a \notin closed
          /\ clients[IndexOf(clients, a)].last_hb = now
          /\ b \notin Sockets(clients) /\ b \in closed /\ hpc[b] = "loop"

=============================================================================
